---- MODULE Spec2Model ----
(***************************************************************************)
(* Model of src/tools/forecasting_engine.py: the ForecastingEngine class.  *)
(*                                                                         *)
(* Dates are integer day numbers; day 0 is a Monday, so dayofweek(d) is    *)
(* d % 7 and a week is named by the day number of its Monday.  A weekly    *)
(* series (pd.Series with a DatetimeIndex) is a sequence of records        *)
(* [date, val].  Values are integers: counts are integers in the source,   *)
(* money and percentages are modelled in whole units.                      *)
(*                                                                         *)
(* statsmodels (adfuller, SARIMAX.fit, get_forecast, conf_int) is outside  *)
(* the repository.  What it returns is modelled by the variable `sm`, a    *)
(* record chosen once in Init: every fit is a deterministic function of    *)
(* the series and the order, but which function is not known.              *)
(***************************************************************************)
EXTENDS Integers, Sequences, FiniteSets, TLC

VARIABLES
    STATSMODELS_AVAILABLE,  \* module flag set by the import at load time
    order_items,            \* self.order_items merged with self.orders on order_id:
                            \*   a set of [day, product_id, n], n rows bought that day
    payments,               \* self.payments merged with self.orders, or None:
                            \*   [provided, rows], rows a set of [day, payment_value]
    products,               \* self.products, or None:
                            \*   [provided, category], category: product_id -> name
    deliveries,             \* the delivery columns of self.orders:
                            \*   [columns, rows], rows a set of [day, total, late]
    _demand_cache,          \* self._demand_cache: cache_key -> weekly series
    sm,                     \* behaviour of the statsmodels library
    call                    \* the last public call: its arguments, steps and outcome

vars == <<STATSMODELS_AVAILABLE, order_items, payments, products, deliveries,
          _demand_cache, sm, call>>

-----------------------------------------------------------------------------
(* Bounds of the model *)

\* level of the weekly values before the tail of a generated history
BaseLevel == 10
\* number of trailing weeks of a generated history that vary
TailLen == 2
\* largest forecast value the fitted model is taken to return
MaxPred == 12

(* Program constants *)

MIN_WEEKS == 16
MIN_DELIVERIES == 5
SEASON == 4
ROLL_WINDOW == 4
ROLL_MIN_PERIODS == 2
TRIM_MIN_LEN == 8
TRIM_DIVISOR == 8
TRIM_MAX_DROP == 4
HOLDOUT_MAX == 8
HOLDOUT_MIN == 4
HOLDOUT_DIVISOR == 6
DAYS_PER_WEEK == 7
YEAR_DAYS == 365

\* None where a number is expected (mape)
None == -1
\* float('inf')
Inf == 1000000

-----------------------------------------------------------------------------
(* Generic helpers over sequences and sets *)

Min(a, b) == IF a < b THEN a ELSE b
Max(a, b) == IF a > b THEN a ELSE b
Abs(a) == IF a < 0 THEN -a ELSE a

RECURSIVE SumSeq(_)
SumSeq(s) == IF s = <<>> THEN 0 ELSE Head(s) + SumSeq(Tail(s))

RECURSIVE SumOver(_, _)
\* sum of f[x] for x in S
SumOver(f, S) ==
    IF S = {} THEN 0
    ELSE LET x == CHOOSE y \in S : TRUE IN f[x] + SumOver(f, S \ {x})

SetMin(S) == CHOOSE x \in S : \A y \in S : x <= y
SetMax(S) == CHOOSE x \in S : \A y \in S : x >= y

\* s.iloc[:k] for 0 <= k <= len(s)
Prefix(s, k) == SubSeq(s, 1, k)
\* s.iloc[-k:] for 0 < k <= len(s)
Suffix(s, k) == SubSeq(s, Len(s) - k + 1, Len(s))

\* a function over 1..n as the tuple of its values
AsSeq(f) == f \o <<>>

Vals(series) == AsSeq([i \in 1..Len(series) |-> series[i].val])
Dates(series) == AsSeq([i \in 1..Len(series) |-> series[i].date])

RECURSIVE Insert(_, _)
\* insert x into the ascending sequence s
Insert(x, s) ==
    IF s = <<>> THEN <<x>>
    ELSE IF x <= Head(s) THEN <<x>> \o s
    ELSE <<Head(s)>> \o Insert(x, Tail(s))

RECURSIVE Sorted(_)
Sorted(s) == IF s = <<>> THEN <<>> ELSE Insert(Head(s), Sorted(Tail(s)))

-----------------------------------------------------------------------------
(* _tail_trim, lines 69-97 *)

\* twice the median of a non-empty sequence of numbers (the median of an
\* even-sized window is the mean of its two middle values)
Median2(w) ==
    LET s == Sorted(w)
        n == Len(s)
    IN  IF n % 2 = 1 THEN 2 * s[(n + 1) \div 2]
    ELSE s[n \div 2] + s[n \div 2 + 1]

\* series.rolling(4, min_periods=2).median().iloc[-1], doubled; None for NaN
RollingMedian2Last(v) ==
    LET w == IF Len(v) >= ROLL_WINDOW THEN Suffix(v, ROLL_WINDOW) ELSE v IN
    IF Len(w) < ROLL_MIN_PERIODS THEN None ELSE Median2(w)

\* the comparison the wrong way round
AboveThreshold(last, refMed2) == 20 * last > 7 * refMed2

\* series.iloc[-1] < ref_med * 0.70, with ref_med given doubled
BelowThreshold(last, refMed2) == 20 * last < 7 * refMed2

\* the loop dropping the first week where it should drop the last
TrimLoopFromFront(series, dropped, max_drop) ==
    IF ~(dropped < max_drop /\ Len(series) >= TRIM_MIN_LEN) THEN series
    ELSE LET ref2 == RollingMedian2Last(Vals(Prefix(series, Len(series) - 1))) IN
         IF ref2 = None \/ ref2 <= 0 THEN series
         ELSE IF BelowThreshold(series[Len(series)].val, ref2)
              THEN Suffix(series, Len(series) - 1)
              ELSE series

RECURSIVE TrimLoop(_, _, _)
TrimLoop(series, dropped, max_drop) ==
    IF ~(dropped < max_drop /\ Len(series) >= TRIM_MIN_LEN) THEN series
    ELSE LET ref2 == RollingMedian2Last(Vals(Prefix(series, Len(series) - 1))) IN
         IF ref2 = None \/ ref2 <= 0 THEN series
         ELSE IF BelowThreshold(series[Len(series)].val, ref2)
              THEN TrimLoop(Prefix(series, Len(series) - 1), dropped + 1, max_drop)
              ELSE series

\* the cap without the len // 8 part
_tail_trim_cap_four(series) == TrimLoop(series, 0, TRIM_MAX_DROP)

_tail_trim(series) ==
    TrimLoop(series, 0, Min(TRIM_MAX_DROP, Len(series) \div TRIM_DIVISOR))

-----------------------------------------------------------------------------
(* Weekly aggregation shared by the series builders *)

\* date - to_timedelta(dayofweek): the Monday of the week of day d
WeekOf(d) == d - (d % DAYS_PER_WEEK)

\* the range with freq='D'
DateRangeDaily(start, end) == AsSeq([i \in 1..(end - start + 1) |-> start + (i - 1)])

\* pd.date_range(start, end, freq='7D') as an ascending sequence
DateRange(start, end) ==
    AsSeq([i \in 1..((end - start) \div DAYS_PER_WEEK + 1) |->
              start + DAYS_PER_WEEK * (i - 1)])

\* pd.DateOffset(months=m) in days; the builders are only called with m = 12
DateOffsetDays(months) == (months * YEAR_DAYS) \div 12

\* series[series.index >= cutoff] for a series with ascending dates
RECURSIVE FromCutoff(_, _)
FromCutoff(series, cutoff) ==
    IF series = <<>> \/ Head(series).date >= cutoff THEN series
    ELSE FromCutoff(Tail(series), cutoff)

\* rows.groupby('week')[field].sum(), reindexed on the full 7-day range of the
\* observed weeks with fill_value = 0 (groupby(...).size() when field = "n")
WeeklyTotals(rows, field) ==
    LET weeks == {WeekOf(r.day) : r \in rows}
        tot(w) == LET rs == {r \in rows : WeekOf(r.day) = w}
                  IN  SumOver([r \in rs |-> r[field]], rs)
        range == DateRange(SetMin(weeks), SetMax(weeks))
    IN  AsSeq([i \in 1..Len(range) |->
                  [date |-> range[i],
                   val  |-> IF range[i] \in weeks THEN tot(range[i]) ELSE 0]])

\* the trailing history_months window measured from the latest week
Window(series, history_months) ==
    FromCutoff(series, series[Len(series)].date - DateOffsetDays(history_months))

\* the ValueError of pd.date_range when the grouped frame is empty
NaT_MSG == "Neither start nor end can be NaT"

\* category = None
NoCategory == "None"

\* the messages of the ValueErrors of lines 147, 187 and 234 (and of the
\* error of line 775)
PAYMENTS_MSG == "payments_df not provided to ForecastingEngine"
COLUMNS_MSG  == "orders_df missing columns: order_delivered_timestamp"
PRODUCTS_MSG == "products_df not provided to ForecastingEngine"

\* what a series builder does: raise, or return a series (and, for the
\* category builder, the category name), leaving the cache as given
Raise(exc, msg, cache) ==
    [exc |-> exc, msg |-> msg, series |-> <<>>, category |-> NoCategory, cache |-> cache]
Return(series, cache) ==
    [exc |-> "none", msg |-> "", series |-> series, category |-> NoCategory, cache |-> cache]

\* the f-string cache keys W_12, REV_12, DELAY_12
CacheKey(prefix, history_months) == <<prefix, history_months>>

\* the cache keeping the series without its last week
CachePutShortened(cache, key, series) ==
    [k \in DOMAIN cache \cup {key} |->
        IF k = key THEN Prefix(series, Len(series) - 1) ELSE cache[k]]

CachePut(cache, key, series) ==
    [k \in DOMAIN cache \cup {key} |-> IF k = key THEN series ELSE cache[k]]

-----------------------------------------------------------------------------
(* _prepare_demand_series, lines 99-138 *)

_prepare_demand_series(cache, items, history_months) ==
    LET cache_key == CacheKey("W", history_months) IN
    IF cache_key \in DOMAIN cache THEN Return(cache[cache_key], cache)
    ELSE IF items = {} THEN Raise("ValueError", NaT_MSG, cache)
    ELSE LET demand == _tail_trim(Window(WeeklyTotals(items, "n"), history_months))
         IN  Return(demand, CachePut(cache, cache_key, demand))

(* _prepare_revenue_series, lines 140-175 *)

_prepare_revenue_series(cache, pay, history_months) ==
    LET cache_key == CacheKey("REV", history_months) IN
    IF cache_key \in DOMAIN cache THEN Return(cache[cache_key], cache)
    ELSE IF ~pay.provided
    THEN Raise("ValueError", PAYMENTS_MSG, cache)
    ELSE IF pay.rows = {} THEN Raise("ValueError", NaT_MSG, cache)
    ELSE LET revenue == _tail_trim(Window(WeeklyTotals(pay.rows, "payment_value"),
                                          history_months))
         IN  Return(revenue, CachePut(cache, cache_key, revenue))

(* _prepare_delay_rate_series, lines 177-224 *)

\* weekly late/total*100 over the weeks with at least 5 deliveries, as a
\* function week -> rate (whole percent)
WeeklyDelayRate(rows) ==
    LET weeks == {WeekOf(r.day) : r \in rows}
        sum(w, field) == LET rs == {r \in rows : WeekOf(r.day) = w}
                         IN  SumOver([r \in rs |-> r[field]], rs)
        kept == {w \in weeks : sum(w, "total") >= MIN_DELIVERIES}
    IN  [w \in kept |-> (sum(w, "late") * 100) \div sum(w, "total")]

\* reindex(full_range).interpolate(method='linear') at date d: the observed
\* value, or the point on the line between the nearest observed neighbours
InterpolateAt(rate, d) ==
    IF d \in DOMAIN rate THEN rate[d]
    ELSE LET p == SetMax({w \in DOMAIN rate : w < d})
             n == SetMin({w \in DOMAIN rate : w > d})
         IN  rate[p] + ((rate[n] - rate[p]) * (d - p)) \div (n - p)

\* .clip(lower, upper)
Clip(x, lower, upper) == Max(lower, Min(upper, x))

_prepare_delay_rate_series(cache, deliv, history_months) ==
    LET cache_key == CacheKey("DELAY", history_months) IN
    IF cache_key \in DOMAIN cache THEN Return(cache[cache_key], cache)
    ELSE IF ~deliv.columns
    THEN Raise("ValueError", COLUMNS_MSG, cache)
    ELSE LET rate == WeeklyDelayRate(deliv.rows) IN
         IF DOMAIN rate = {} THEN Raise("ValueError", NaT_MSG, cache)
         ELSE LET range == DateRange(SetMin(DOMAIN rate), SetMax(DOMAIN rate))
                  full  == AsSeq([i \in 1..Len(range) |->
                               [date |-> range[i],
                                val  |-> Clip(InterpolateAt(rate, range[i]), 0, 100)]])
                  delay_rate == Window(full, history_months)
              IN  Return(delay_rate, CachePut(cache, cache_key, delay_rate))

(* _prepare_category_series, lines 226-274 *)

\* order_items merged with products on product_id
MergedWithProducts(items, prod) ==
    {r \in items : r.product_id \in DOMAIN prod.category}

CategoryRows(items, prod, category) ==
    {r \in MergedWithProducts(items, prod) : prod.category[r.product_id] = category}

RowCount(rows) == SumOver([r \in rows |-> r.n], rows)

\* merged['product_category_name'].value_counts(): the categories that occur
CategoriesIn(items, prod) ==
    {prod.category[r.product_id] : r \in MergedWithProducts(items, prod)}

\* value_counts().index[0]: a category with the most rows
TopCategory(items, prod) ==
    CHOOSE c \in CategoriesIn(items, prod) :
        \A e \in CategoriesIn(items, prod) :
            RowCount(CategoryRows(items, prod, c)) >= RowCount(CategoryRows(items, prod, e))

_prepare_category_series(cache, items, prod, category, history_months) ==
    IF ~prod.provided
    THEN Raise("ValueError", PRODUCTS_MSG, cache)
    ELSE IF category = NoCategory /\ CategoriesIn(items, prod) = {}
    THEN Raise("ValueError", "No category data found in products_df", cache)
    ELSE LET cat == IF category = NoCategory THEN TopCategory(items, prod) ELSE category
             cat_data == CategoryRows(items, prod, cat)
         IN  IF cat_data = {}
             THEN Raise("ValueError", "No orders found for category", cache)
             ELSE [Return(_tail_trim(Window(WeeklyTotals(cat_data, "n"), history_months)),
                          cache) EXCEPT !.category = cat]

-----------------------------------------------------------------------------
(* The statsmodels library as seen by the engine.  sm is a record:           *)
(*   adf         adfuller on the training series: "stationary" (p <= 0.05),  *)
(*               "unit_root" (p > 0.05) or "raise"                           *)
(*   gridFail    the orders whose SARIMAX fit raises on any series           *)
(*   badFit      the classes of series on which every fit raises             *)
(*   badForecast the classes of series on which get_forecast raises          *)
(*   target      per class of series, the order with the lowest AIC          *)
(*   pred        the shape of a holdout forecast                             *)
(*   fc          the shape of a forward forecast                             *)
(* A class of series stands for "which series it is": a training prefix and  *)
(* the full series it was cut from are in different classes.                 *)

SeriesClass(series) == (Len(series) \div 4) % 2

Order(p, d, q) == <<p, d, q>>
Seasonal(P, D, Q, s) == <<P, D, Q, s>>

GridFails(pattern, order, seasonal) ==
    CASE pattern = "none" -> FALSE
      [] pattern = "all" -> TRUE
      [] pattern = "D0" -> seasonal[2] = 0
      [] pattern = "AR" -> order[1] > 0 \/ seasonal[1] > 0

\* SARIMAX(series, order, seasonal_order, ...).fit(...) raises
FitRaises(lib, series, order, seasonal) ==
    \/ SeriesClass(series) \in lib.badFit
    \/ GridFails(lib.gridFail, order, seasonal)

\* fitted.get_forecast(steps) raises
ForecastRaises(lib, series) == SeriesClass(series) \in lib.badForecast

AIC_BASE == 100

\* r.aic of a successful fit
AicOf(lib, series, order, seasonal) ==
    LET t == lib.target[SeriesClass(series)] IN
    AIC_BASE + Abs(order[1] - t.p) + Abs(order[3] - t.q)
             + Abs(seasonal[1] - t.P) + Abs(seasonal[2] - t.D) + Abs(seasonal[3] - t.Q)

-----------------------------------------------------------------------------
(* _auto_sarima_params, lines 278-333, and _auto_sarima_params_fast,        *)
(* lines 940-981                                                            *)

\* the 0.05 of lines 293 and 948, in thousandths
ADF_ALPHA == 50

\* adfuller(...)[1] in thousandths, for the outcomes of the test that return
PValue(adf) ==
    CASE adf = "stationary" -> 10
      [] adf = "threshold"  -> ADF_ALPHA
      [] adf = "above"      -> ADF_ALPHA + 1
      [] adf = "unit_root"  -> 900

\* the differencing order with the threshold itself taken for a unit root
DiffOrderFromThreshold(lib) ==
    IF lib.adf = "raise" THEN 1
    ELSE IF PValue(lib.adf) >= ADF_ALPHA THEN 1 ELSE 0

\* lines 290-296 and 946-951: the differencing order from the unit-root test
DiffOrder(lib) ==
    IF lib.adf = "raise" THEN 1
    ELSE IF PValue(lib.adf) > ADF_ALPHA THEN 1 ELSE 0

\* the guard left out
NeverOverDifferenced(d, D) == FALSE

\* line 309: if d + D > 1: continue
OverDifferenced(d, D) == d + D > 1

\* every successful fit kept, whatever its AIC
TryFitKeepEvery(lib, train, best, order, seasonal) ==
    IF FitRaises(lib, train, order, seasonal) THEN best
    ELSE [order |-> order, seasonal_order |-> seasonal,
          aic |-> AicOf(lib, train, order, seasonal)]

\* lines 311-328 and 962-979: fit one combination; keep it when its AIC is
\* strictly below the best so far; a fit that raises changes nothing
TryFit(lib, train, best, order, seasonal) ==
    IF FitRaises(lib, train, order, seasonal) THEN best
    ELSE IF AicOf(lib, train, order, seasonal) < best.aic
    THEN [order |-> order, seasonal_order |-> seasonal,
          aic |-> AicOf(lib, train, order, seasonal)]
    ELSE best

\* the nested loops of lines 304-308, as the sequence of (p, q, P, Q, D) in
\* the order the loops visit them: p outermost, D innermost
FullGrid ==
    [i \in 1..72 |->
        [p |-> ((i - 1) \div 24) % 3, q |-> ((i - 1) \div 8) % 3,
         P |-> ((i - 1) \div 4) % 2,  Q |-> ((i - 1) \div 2) % 2,
         D |-> (i - 1) % 2]]

\* the nested loops of lines 958-961; D is the literal 0 of lines 966, 977
FastGrid ==
    [i \in 1..16 |->
        [p |-> ((i - 1) \div 8) % 2, q |-> ((i - 1) \div 4) % 2,
         P |-> ((i - 1) \div 2) % 2, Q |-> (i - 1) % 2,
         D |-> 0]]

\* one pass of the loop body for combination c: the guard of line 309 (full
\* search only), then the fit
Visit(lib, train, d, guarded, best, c) ==
    IF guarded /\ OverDifferenced(d, c.D) THEN best
    ELSE TryFit(lib, train, best, Order(c.p, d, c.q), Seasonal(c.P, c.D, c.Q, SEASON))

RECURSIVE GridSearch(_, _, _, _, _, _, _)
\* the loops from combination i on, with the best found so far (the best is
\* computed before the next pass starts)
GridSearch(lib, train, d, grid, guarded, i, best) ==
    IF i > Len(grid) THEN best
    ELSE LET next == Visit(lib, train, d, guarded, best, grid[i]) IN
         IF next = best THEN GridSearch(lib, train, d, grid, guarded, i + 1, best)
         ELSE GridSearch(lib, train, d, grid, guarded, i + 1, next)

\* the full search with a default order that differences seasonally whatever d
_auto_sarima_params_fixed_default(lib, train) ==
    LET d == DiffOrder(lib) IN
    GridSearch(lib, train, d, FullGrid, TRUE, 1,
               [order |-> Order(1, d, 1),
                seasonal_order |-> Seasonal(1, 1, 1, SEASON),
                aic |-> Inf])

_auto_sarima_params(lib, train) ==
    LET d == DiffOrder(lib) IN
    GridSearch(lib, train, d, FullGrid, TRUE, 1,
               [order |-> Order(1, d, 1),
                seasonal_order |-> Seasonal(1, Max(0, 1 - d), 1, SEASON),
                aic |-> Inf])

\* the fast search running the full search
_auto_sarima_params_fast_as_full(lib, train) == _auto_sarima_params(lib, train)

_auto_sarima_params_fast(lib, train) ==
    LET d == DiffOrder(lib) IN
    GridSearch(lib, train, d, FastGrid, FALSE, 1,
               [order |-> Order(1, d, 1),
                seasonal_order |-> Seasonal(0, 0, 1, SEASON),
                aic |-> Inf])

-----------------------------------------------------------------------------
(* What the fitted models return *)

\* fc_test.predicted_mean[i] of the model fitted on train, before clipping
HoldoutPrediction(lib, test, i) ==
    CASE lib.pred = "exact" -> test[i].val
      [] lib.pred = "negative" -> 0 - i
      [] lib.pred = "flat" -> MaxPred

\* fitted_full.fittedvalues[i]
FittedValue(lib, series, i) ==
    CASE lib.pred = "exact" -> series[i].val
      [] lib.pred = "negative" -> 0 - i
      [] lib.pred = "flat" -> MaxPred

\* step k of fc.predicted_mean and fc.conf_int(alpha=0.05) of the full model
RawForecast(lib, series, k) ==
    LET mean == CASE lib.fc = "last" -> series[Len(series)].val
                  [] lib.fc = "high" -> MaxPred + k
                  [] lib.fc = "negative" -> 0 - k
                  [] lib.fc = "deep" -> 0 - 3 * k
                  [] lib.fc = "over" -> 100 + k
                  [] lib.fc = "reverting" -> Max(0, MaxPred - series[Len(series)].val)
    IN  [forecast |-> mean, lower |-> mean - 2 * k, upper |-> mean + 2 * k]

-----------------------------------------------------------------------------
(* _run_sarima_on_series, lines 337-497 *)

\* int(num / den) for num >= 0: the fraction dropped
PyTruncate(num, den) == num \div den

\* Python's round(num / den) for den > 0: to nearest, ties to even
PyRound(num, den) ==
    LET q == num \div den
        r == num % den
    IN  IF 2 * r < den THEN q
        ELSE IF 2 * r > den THEN q + 1
        ELSE IF q % 2 = 0 THEN q ELSE q + 1

\* line 372 and line 791
WeeksAhead(periods) == Max(1, PyRound(periods, DAYS_PER_WEEK))

\* the holdout without its bounds of 4 and 8
HoldoutWeeksUnclamped(n) == n \div HOLDOUT_DIVISOR

\* line 375 and line 804
HoldoutWeeks(n) == Min(HOLDOUT_MAX, Max(HOLDOUT_MIN, n \div HOLDOUT_DIVISOR))

\* np.mean(np.abs((actual[mask] - pred[mask]) / actual[mask])) * 100 over the
\* positions where mask holds, in whole percent (each term truncated)
MeanAbsPctError(actual, pred, mask) ==
    LET idx == {i \in 1..Len(actual) : mask[i]}
        term == [i \in idx |-> (Abs(actual[i] - pred[i]) * 100) \div actual[i]]
    IN  SumOver(term, idx) \div Cardinality(idx)

\* the mean taken over every holdout week, a zero actual counting as no error
HoldoutMapeOverAllWeeks(test, pred_val) ==
    LET nonzero == {i \in 1..Len(test) : test[i] > 0} IN
    SumOver([i \in nonzero |-> (Abs(test[i] - pred_val[i]) * 100) \div test[i]], nonzero)
        \div Len(test)

\* lines 399-410: nonzero = test > 0; the mean over test[nonzero], else 0.0
HoldoutMape(test, pred_val) ==
    LET nonzero == [i \in 1..Len(test) |-> test[i] > 0] IN
    IF \E i \in 1..Len(test) : nonzero[i]
    THEN MeanAbsPctError(test, pred_val, nonzero)
    ELSE 0

\* lines 434-442: the same over the full series and the fitted values
InSampleMape(series, in_sample) ==
    LET nz == [i \in 1..Len(series) |-> series[i] > 0] IN
    IF \E i \in 1..Len(series) : nz[i]
    THEN MeanAbsPctError(series, in_sample, nz)
    ELSE 0

\* the clip without its lower bound
ClipCellUpperOnly(x, clip_upper) == IF clip_upper = None THEN x ELSE Min(clip_upper, x)

\* the clip without its upper bound
ClipCellLowerOnly(x, clip_upper) == Max(0, x)

\* DataFrame.clip(lower=0, upper=clip_upper) on one cell
ClipCell(x, clip_upper) ==
    IF clip_upper = None THEN Max(0, x) ELSE Max(0, Min(clip_upper, x))

\* the frame with its index starting at the last week of the series
ForecastFrameFromLastWeek(lib, series, weeks_ahead, clip_upper) ==
    AsSeq([k \in 1..weeks_ahead |->
        LET raw == RawForecast(lib, series, k) IN
        [date     |-> series[Len(series)].date + DAYS_PER_WEEK * (k - 1),
         forecast |-> ClipCell(raw.forecast, clip_upper),
         lower    |-> ClipCell(raw.lower, clip_upper),
         upper    |-> ClipCell(raw.upper, clip_upper)]])

\* the frame with the clip applied to the forecast column alone
ForecastFrameClipPoint(lib, series, weeks_ahead, clip_upper) ==
    AsSeq([k \in 1..weeks_ahead |->
        LET raw == RawForecast(lib, series, k) IN
        [date     |-> series[Len(series)].date + DAYS_PER_WEEK + DAYS_PER_WEEK * (k - 1),
         forecast |-> ClipCell(raw.forecast, clip_upper),
         lower    |-> raw.lower,
         upper    |-> raw.upper]])

\* lines 445-457 and 845-855: the forecast frame, one row per future week
ForecastFrame(lib, series, weeks_ahead, clip_upper) ==
    AsSeq([k \in 1..weeks_ahead |->
        LET raw == RawForecast(lib, series, k) IN
        [date     |-> series[Len(series)].date + DAYS_PER_WEEK + DAYS_PER_WEEK * (k - 1),
         forecast |-> ClipCell(raw.forecast, clip_upper),
         lower    |-> ClipCell(raw.lower, clip_upper),
         upper    |-> ClipCell(raw.upper, clip_upper)]])

\* last_fc against hist_mean +/- hist_std, without the factor 0.2
TrendWholeStd(series, last_fc) ==
    LET v == Vals(series)
        n == Len(v)
        S == SumSeq(v)
        Q == SumSeq(AsSeq([i \in 1..n |-> v[i] * v[i]]))
        a == n * last_fc - S
        above == a > 0 /\ a * a * (n - 1) > n * (n * Q - S * S)
        below == a < 0 /\ a * a * (n - 1) > n * (n * Q - S * S)
    IN  IF above THEN "increasing" ELSE IF below THEN "decreasing" ELSE "stable"

\* lines 459-468 and 857-862: last_fc against hist_mean +/- 0.2 * hist_std,
\* with mean = S/n and std^2 = (n*Q - S^2) / (n*(n-1)), compared exactly
Trend(series, last_fc) ==
    LET v == Vals(series)
        n == Len(v)
        S == SumSeq(v)
        Q == SumSeq(AsSeq([i \in 1..n |-> v[i] * v[i]]))
        a == n * last_fc - S
        above == a > 0 /\ 25 * a * a * (n - 1) > n * (n * Q - S * S)
        below == a < 0 /\ 25 * a * a * (n - 1) > n * (n * Q - S * S)
    IN  IF above THEN "increasing" ELSE IF below THEN "decreasing" ELSE "stable"

NoParams == [order |-> <<>>, seasonal_order |-> <<>>, aic |-> None]

\* the shape of what a pipeline run leaves behind: the returned dict (error,
\* weeks_ahead, forecast_df, mape, mape_label, params, trend), the exception
\* that left the function (raised), and a log of the run for the properties:
\* steps taken, series handed to the order search, where the MAPE came from
NoOutcome ==
    [raised |-> "none", error |-> "", error_weeks |-> None,
     weeks_ahead |-> 0, forecast_df |-> <<>>, mape |-> None, mape_label |-> "",
     params |-> NoParams, trend |-> "",
     steps |-> <<>>, searched |-> <<>>, mape_source |-> "none",
     test |-> <<>>, pred_val |-> <<>>]

STATSMODELS_MSG == "statsmodels not installed. Run: pip install statsmodels"
WEEKS_MSG == "Only N weeks of data available (need >=16). Load more history and retry."

\* the same test, one week off
TooShortOffByOne(series) == Len(series) < MIN_WEEKS - 1

\* line 364: if len(series) < MIN_WEEKS
TooShort(series) == Len(series) < MIN_WEEKS

_run_sarima_on_series(lib, available, series, periods, clip_upper) ==
    IF ~available THEN [NoOutcome EXCEPT !.error = STATSMODELS_MSG]
    ELSE IF TooShort(series)
    THEN [NoOutcome EXCEPT !.error = WEEKS_MSG, !.error_weeks = Len(series)]
    ELSE
    LET weeks_ahead   == WeeksAhead(periods)
        holdout_weeks == HoldoutWeeks(Len(series))
        train == Prefix(series, Len(series) - holdout_weeks)
        test  == Suffix(series, holdout_weeks)
        \* Step 1: the try block of lines 382-415.  Its first statement is the
        \* order search, which catches every exception of its own fits, so
        \* params is set before anything in the block can raise
        search_raises == FALSE
        \* lines 418-419: if params is None: search on the full series
        params   == IF search_raises THEN _auto_sarima_params(lib, series)
                    ELSE _auto_sarima_params(lib, train)
        val_fit_raises == FitRaises(lib, train, params.order, params.seasonal_order)
        val_fc_raises  == ForecastRaises(lib, train)
        walk_ok  == ~val_fit_raises /\ ~val_fc_raises
        pred_val == AsSeq([i \in 1..holdout_weeks |->
                              Max(0, HoldoutPrediction(lib, test, i))])
        steps1   == <<"search", "fit">>
                    \o (IF val_fit_raises THEN <<>> ELSE <<"forecast">>)
        \* Step 2: lines 417-431, outside any try
        full_fit_raises == FitRaises(lib, series, params.order, params.seasonal_order)
        full_fc_raises  == ForecastRaises(lib, series)
        in_sample == AsSeq([i \in 1..Len(series) |-> FittedValue(lib, series, i)])
        mape == IF walk_ok THEN HoldoutMape(Vals(test), pred_val)
                ELSE InSampleMape(Vals(series), in_sample)
        forecast_df == ForecastFrame(lib, series, weeks_ahead, clip_upper)
        log == [NoOutcome EXCEPT !.searched = IF search_raises THEN <<train, series>>
                                              ELSE <<train>>,
                                 !.test = IF walk_ok THEN Vals(test) ELSE <<>>,
                                 !.pred_val = IF walk_ok THEN pred_val ELSE <<>>]
    IN  IF full_fit_raises
        THEN [log EXCEPT !.raised = "LinAlgError", !.steps = steps1 \o <<"fit">>]
        ELSE IF full_fc_raises
        THEN [log EXCEPT !.raised = "ValueError",
                         !.steps = steps1 \o <<"fit", "forecast">>]
        ELSE [log EXCEPT
                !.steps       = steps1 \o <<"fit", "forecast">>,
                !.weeks_ahead = weeks_ahead,
                !.forecast_df = forecast_df,
                !.mape        = mape,
                !.mape_source = IF walk_ok THEN "holdout" ELSE "in-sample",
                !.mape_label  = "walk-forward",
                !.params      = params,
                !.trend       = Trend(series, forecast_df[weeks_ahead].forecast)]

-----------------------------------------------------------------------------
(* forecast_top_categories, lines 758-936 *)

\* lines 783-785: the rows of the last 12 months, by purchase date
LastYearRows(rows) ==
    IF rows = {} THEN {}
    ELSE LET last == SetMax({r.day : r \in rows})
         IN  {r \in rows : r.day >= last - DateOffsetDays(12)}

RECURSIVE RankByCount(_, _, _)
\* value_counts(): the categories of cats, most rows first
RankByCount(rows, prod, cats) ==
    IF cats = {} THEN <<>>
    ELSE LET count(c) == RowCount({r \in rows : prod.category[r.product_id] = c})
             top == CHOOSE c \in cats : \A e \in cats : count(c) >= count(e)
         IN  <<top>> \o RankByCount(rows, prod, cats \ {top})

\* line 787: value_counts().head(top_n)
TopCats(items, prod, top_n) ==
    LET merged == LastYearRows(MergedWithProducts(items, prod))
        ranked == RankByCount(merged, prod, {prod.category[r.product_id] : r \in merged})
    IN  Prefix(ranked, Min(Max(top_n, 0), Len(ranked)))

\* lines 823-829: no else branch, mape stays None when no actual is positive
CategoryHoldoutMape(test, pred) ==
    LET nz == [i \in 1..Len(test) |-> test[i] > 0] IN
    IF \E i \in 1..Len(test) : nz[i]
    THEN MeanAbsPctError(test, pred, nz)
    ELSE None

\* lines 845-880: the entry of category_results; mape is the holdout MAPE or
\* None (test and pred are empty when the holdout fit or forecast raised)
CategoryResult(lib, cat_series, weeks_ahead, params, steps, train, test, pred, forecast_df) ==
    [NoOutcome EXCEPT
        !.steps       = steps \o <<"forecast">>,
        !.searched    = <<train>>,
        !.test        = test,
        !.pred_val    = pred,
        !.weeks_ahead = weeks_ahead,
        !.forecast_df = forecast_df,
        !.mape        = IF test = <<>> THEN None ELSE CategoryHoldoutMape(test, pred),
        !.mape_source = IF test = <<>> THEN "none" ELSE "holdout",
        !.params      = params,
        !.trend       = Trend(cat_series, forecast_df[weeks_ahead].forecast)]

\* lines 811-880 of one pass of the loop: the holdout MAPE, the fit on the
\* whole series with the same params, and what is stored in category_results
\* (status "ok") or why nothing is stored
CategoryFit(lib, cat_name, weeks_ahead, cat_series, train, test, params) ==
    LET val_fit_raises == FitRaises(lib, train, params.order, params.seasonal_order)
        walk_ok == ~val_fit_raises /\ ~ForecastRaises(lib, train)
        pred == AsSeq([i \in 1..Len(test) |-> Max(0, HoldoutPrediction(lib, test, i))])
        full_raises == \/ FitRaises(lib, cat_series, params.order, params.seasonal_order)
                       \/ ForecastRaises(lib, cat_series)
        steps == <<"build", "search", "fit">>
                 \o (IF val_fit_raises THEN <<>> ELSE <<"forecast">>)
                 \o <<"fit">>
    IN  [name |-> cat_name,
         status |-> IF full_raises THEN "failed" ELSE "ok",
         weeks |-> Len(cat_series),
         out |-> IF full_raises
                 THEN [NoOutcome EXCEPT !.steps = steps, !.searched = <<train>>]
                 ELSE CategoryResult(lib, cat_series, weeks_ahead, params, steps, train,
                                     IF walk_ok THEN Vals(test) ELSE <<>>,
                                     IF walk_ok THEN pred ELSE <<>>,
                                     ForecastFrame(lib, cat_series, weeks_ahead, None))]

\* line 809: params = self._auto_sarima_params_fast(train)
CategoryFitOn(lib, cat_name, weeks_ahead, cat_series, train, test) ==
    CategoryFit(lib, cat_name, weeks_ahead, cat_series, train, test,
                _auto_sarima_params_fast(lib, train))

\* lines 804-809: the split and the fast search on the training part
CategorySplit(lib, cat_name, weeks_ahead, cat_series, holdout_weeks) ==
    CategoryFitOn(lib, cat_name, weeks_ahead, cat_series,
                  Prefix(cat_series, Len(cat_series) - holdout_weeks),
                  Suffix(cat_series, holdout_weeks))

\* lines 794-809 of one pass of the loop for the series built for cat_name:
\* the 16-week check, the holdout split and the fast order search on train
CategoryPass(lib, cat_name, weeks_ahead, built) ==
    IF built.exc # "none"
    THEN [name |-> cat_name, status |-> "failed", weeks |-> 0,
          out |-> [NoOutcome EXCEPT !.steps = <<"build">>]]
    ELSE IF Len(built.series) < 16
    THEN [name |-> cat_name, status |-> "short", weeks |-> Len(built.series),
          out |-> [NoOutcome EXCEPT !.steps = <<"build">>]]
    ELSE CategorySplit(lib, cat_name, weeks_ahead, built.series,
                       HoldoutWeeks(Len(built.series)))

\* one pass of the loop body of lines 794-880 for cat_name
CategoryForecast(lib, cache, items, prod, cat_name, weeks_ahead) ==
    CategoryPass(lib, cat_name, weeks_ahead,
                 _prepare_category_series(cache, items, prod, cat_name, 12))

\* the keys of category_results, in insertion order
OkNames(passes) ==
    LET F[i \in 0..Len(passes)] ==
            IF i = 0 THEN <<>>
            ELSE IF passes[i].status = "ok" THEN Append(F[i - 1], passes[i].name)
            ELSE F[i - 1]
    IN  F[Len(passes)]

\* the returned dict (error, or method and categories), the exception that
\* left the function, and the log of every pass of the loop
NoTopOutcome == [raised |-> "none", error |-> "", method |-> "", categories |-> <<>>,
                 passes |-> <<>>]

\* the returned dict if one pass that stored nothing failed the whole call
TopResultAllOrNothing(passes) ==
    IF \E i \in 1..Len(passes) : passes[i].status # "ok"
    THEN [NoTopOutcome EXCEPT
            !.error = "Could not generate forecasts for any category",
            !.passes = passes]
    ELSE [NoTopOutcome EXCEPT !.method = "SARIMA (fast)",
                              !.categories = OkNames(passes),
                              !.passes = passes]

\* lines 882-936: the returned dict for the passes of the loop
TopResult(passes) ==
    IF OkNames(passes) = <<>>
    THEN [NoTopOutcome EXCEPT
            !.error = "Could not generate forecasts for any category",
            !.passes = passes]
    ELSE [NoTopOutcome EXCEPT !.method = "SARIMA (fast)",
                              !.categories = OkNames(passes),
                              !.passes = passes]

\* lines 788-880: the loop over top_cats
TopOutcome(lib, cache, items, prod, weeks_ahead, top_cats) ==
    IF top_cats = <<>>
    THEN [NoTopOutcome EXCEPT !.error = "No category data found in products_df"]
    ELSE TopResult(AsSeq([i \in 1..Len(top_cats) |->
            CategoryForecast(lib, cache, items, prod, top_cats[i], weeks_ahead)]))

forecast_top_categories(lib, available, cache, items, prod, periods, top_n) ==
    IF ~available THEN [NoTopOutcome EXCEPT !.error = STATSMODELS_MSG]
    ELSE IF ~prod.provided
    THEN [NoTopOutcome EXCEPT !.error = PRODUCTS_MSG]
    ELSE
    TopOutcome(lib, cache, items, prod, WeeksAhead(periods), TopCats(items, prod, top_n))

-----------------------------------------------------------------------------
(* The single-series public operations, lines 501-756.  Each returns the    *)
(* pipeline's outcome (the summary text and charts are built from it) and  *)
(* the cache it leaves; series is what the builder handed to the pipeline. *)

NotAvailable(cache) ==
    [out |-> [NoOutcome EXCEPT !.error = STATSMODELS_MSG], series |-> <<>>,
     category |-> NoCategory, cache |-> cache]

\* the pipeline dropping, in place, the last week of the series it was given
PipedShorteningInPlace(lib, available, built, periods, clip_upper) ==
    LET res == _run_sarima_on_series(lib, available, built.series, periods, clip_upper)
    IN  [out |-> [res EXCEPT !.steps = <<"build">> \o res.steps],
         series |-> built.series, category |-> built.category,
         cache |-> [k \in DOMAIN built.cache |->
                      IF built.cache[k] = built.series
                      THEN Prefix(built.series, Len(built.series) - 1)
                      ELSE built.cache[k]]]

\* the pipeline on a built series, after the "build" step
Piped(lib, available, built, periods, clip_upper) ==
    LET res == _run_sarima_on_series(lib, available, built.series, periods, clip_upper)
    IN  [out |-> [res EXCEPT !.steps = <<"build">> \o res.steps],
         series |-> built.series, category |-> built.category, cache |-> built.cache]

\* the builder raised and nothing caught it
Propagated(built) ==
    [out |-> [NoOutcome EXCEPT !.raised = built.exc, !.steps = <<"build">>],
     series |-> <<>>, category |-> NoCategory, cache |-> built.cache]

\* the operation without its except clause
Uncaught(built) == Propagated(built)

\* except ValueError as exc: return {'error': str(exc)}
Caught(built) ==
    [out |-> [NoOutcome EXCEPT !.error = built.msg, !.steps = <<"build">>],
     series |-> <<>>, category |-> NoCategory, cache |-> built.cache]

forecast_sarima(lib, available, cache, items, periods) ==
    IF ~available THEN NotAvailable(cache)
    ELSE LET demand == _prepare_demand_series(cache, items, 12) IN
         IF demand.exc # "none" THEN Propagated(demand)
         ELSE Piped(lib, available, demand, periods, None)

\* forecast_revenue with the series built before anything else; the pipeline
\* then finds the library missing
forecast_revenue_build_first(lib, available, cache, pay, periods) ==
    LET revenue == _prepare_revenue_series(cache, pay, 12) IN
    IF revenue.exc = "ValueError" THEN Caught(revenue)
    ELSE IF revenue.exc # "none" THEN Propagated(revenue)
    ELSE Piped(lib, available, revenue, periods, None)

forecast_revenue(lib, available, cache, pay, periods) ==
    IF ~available THEN NotAvailable(cache)
    ELSE LET revenue == _prepare_revenue_series(cache, pay, 12) IN
         IF revenue.exc = "ValueError" THEN Caught(revenue)
         ELSE IF revenue.exc # "none" THEN Propagated(revenue)
         ELSE Piped(lib, available, revenue, periods, None)

forecast_delay_rate(lib, available, cache, deliv, periods) ==
    IF ~available THEN NotAvailable(cache)
    ELSE LET delay_rate == _prepare_delay_rate_series(cache, deliv, 12) IN
         IF delay_rate.exc = "ValueError" THEN Caught(delay_rate)
         ELSE IF delay_rate.exc # "none" THEN Propagated(delay_rate)
         ELSE Piped(lib, available, delay_rate, periods, 100)

forecast_category(lib, available, cache, items, prod, periods, category) ==
    IF ~available THEN NotAvailable(cache)
    ELSE LET cat_demand == _prepare_category_series(cache, items, prod, category, 12) IN
         IF cat_demand.exc = "ValueError" THEN Caught(cat_demand)
         ELSE IF cat_demand.exc # "none" THEN Propagated(cat_demand)
         ELSE Piped(lib, available, cat_demand, periods, None)

-----------------------------------------------------------------------------
(* Input data.  A history is a weekly profile: BaseLevel for every week but *)
(* the last TailLen, whose values are drawn from TailVals.                  *)

TailVals == {0, 2, BaseLevel}

\* weekly values of a history of n weeks with the given tail
Profile(n, tail) ==
    AsSeq([i \in 1..n |->
              IF i <= n - Len(tail) THEN BaseLevel ELSE tail[i - (n - Len(tail))]])

\* a weekday for the events of week i
Weekday(i) == (3 * i) % DAYS_PER_WEEK

\* the day of the events of week i of a history of m weeks ending with week n
DayOf(i, m, n) == DAYS_PER_WEEK * (n - m + i - 1) + Weekday(i)

\* order-item rows of one product: profile[i] rows in week i, none when 0
ItemRows(product_id, profile, n) ==
    {[day |-> DayOf(i, Len(profile), n), product_id |-> product_id, n |-> profile[i]] :
        i \in {j \in 1..Len(profile) : profile[j] > 0}}

Constant(m, v) == AsSeq([i \in 1..m |-> v])

\* payment rows: one per week, of the week's value (0 in a week with a
\* payment of value 0)
PaymentRows(profile) ==
    {[day |-> DayOf(i, Len(profile), Len(profile)), payment_value |-> profile[i]] :
        i \in 1..Len(profile)}

\* delivered orders: BaseLevel deliveries in a week whose profile value is
\* positive (2 otherwise), late as many as the week is off BaseLevel
DeliveryRows(profile) ==
    {[day   |-> DayOf(i, Len(profile), Len(profile)),
      total |-> IF profile[i] > 0 THEN BaseLevel ELSE 2,
      late  |-> IF profile[i] >= BaseLevel THEN 0 ELSE profile[i]] :
        i \in 1..Len(profile)}

ProductIds == {"p1", "p2", "p3"}
CategoryOf == [p \in ProductIds |->
                 CASE p = "p1" -> "cat_a" [] p = "p2" -> "cat_b" [] p = "p3" -> "cat_c"]

Tails == {t \in [1..TailLen -> TailVals] : t[TailLen] > 0}

\* a data snapshot: n weeks of product p1 with the given tail, n2 weeks of
\* p2 and MIN_WEEKS weeks of p3, all ending in the same week; `absent` names
\* the input that was not provided
DataOf(n, tail, n2, absent) ==
    LET p1 == Profile(n, tail) IN
    [order_items |-> IF absent = "rows" THEN {}
                     ELSE ItemRows("p1", p1, n) \cup ItemRows("p2", Constant(n2, 3), n)
                          \cup ItemRows("p3", Constant(MIN_WEEKS, 1), n),
     payments    |-> [provided |-> absent # "payments",
                      rows |-> IF absent \in {"payments", "rows"} THEN {}
                               ELSE PaymentRows(p1)],
     products    |-> [provided |-> absent # "products", category |-> CategoryOf],
     deliveries  |-> [columns |-> absent # "delivery_columns",
                      rows |-> IF absent \in {"delivery_columns", "rows"} THEN {}
                               ELSE DeliveryRows(p1)]]

AllBase == [i \in 1..TailLen |-> BaseLevel]
Absent == {"payments", "delivery_columns", "products", "rows"}

\* the snapshot the others vary: 17 weeks at BaseLevel, p2 with 17 weeks too
DefaultData == DataOf(MIN_WEEKS + 1, AllBase, MIN_WEEKS + 1, "nothing")
\* p2 has 10 weeks only
ShortCategoryData == DataOf(MIN_WEEKS + 1, AllBase, MIN_WEEKS - 6, "nothing")
\* p1 has 20 weeks, a series of the other class than those of p2 and p3
LongCategoryData == DataOf(MIN_WEEKS + 4, AllBase, MIN_WEEKS + 1, "nothing")

Datasets ==
    {DataOf(n, AllBase, MIN_WEEKS + 1, "nothing") : n \in {MIN_WEEKS - 1, MIN_WEEKS}}
    \cup {DataOf(MIN_WEEKS + 1, tail, MIN_WEEKS + 1, "nothing") : tail \in Tails}
    \cup {DataOf(MIN_WEEKS + 1, AllBase, MIN_WEEKS + 1, absent) : absent \in Absent}
    \cup {DefaultData, ShortCategoryData}

-----------------------------------------------------------------------------
(* The behaviours of statsmodels the model draws from *)

LowOrder  == [p |-> 1, q |-> 1, P |-> 0, D |-> 0, Q |-> 1]
HighOrder == [p |-> 2, q |-> 0, P |-> 1, D |-> 1, Q |-> 0]
Targets == {LowOrder, HighOrder}

SmDefault ==
    [adf |-> "stationary", gridFail |-> "none", badFit |-> {}, badForecast |-> {},
     target |-> [c \in {0, 1} |-> LowOrder], pred |-> "exact", fc |-> "last"]

\* behaviours that differ from SmDefault in one respect
SmVariants ==
    {[SmDefault EXCEPT !.badFit = bf] : bf \in {{0}, {1}}}
    \cup {[SmDefault EXCEPT !.badForecast = bc] : bc \in {{0}, {1}}}
    \cup {[SmDefault EXCEPT !.target = t] : t \in [{0, 1} -> Targets]}
    \cup {[SmDefault EXCEPT !.pred = pr] : pr \in {"negative", "flat"}}
    \cup {[SmDefault EXCEPT !.fc = f] :
            f \in {"high", "negative", "deep", "over", "reverting"}}
    \cup {[SmDefault EXCEPT !.gridFail = "all"]}

\* every behaviour of the unit-root test and of the fits of an order search
SmSearches ==
    {[SmDefault EXCEPT !.adf = a, !.gridFail = g, !.target = t] :
        a \in {"stationary", "threshold", "above", "unit_root", "raise"},
        g \in {"none", "all", "D0", "AR"},
        t \in [{0, 1} -> Targets]}

Scenario(available, data, lib) == [available |-> available, data |-> data, lib |-> lib]

\* the engine on every snapshot, and on two of them with every behaviour of
\* the library; the library missing altogether
EngineScenarios ==
    {Scenario(TRUE, d, SmDefault) : d \in Datasets}
    \cup {Scenario(TRUE, d, lib) : d \in {DefaultData, ShortCategoryData}, lib \in SmVariants}
    \cup {Scenario(FALSE, d, SmDefault) : d \in {DefaultData, ShortCategoryData}}
    \cup {Scenario(TRUE, LongCategoryData, [SmDefault EXCEPT !.badFit = bf, !.badForecast = bc]) :
            bf \in {{}, {0}, {1}}, bc \in {{}, {0}, {1}}}
    \cup {Scenario(TRUE, DefaultData, [SmDefault EXCEPT !.adf = a, !.badFit = bf, !.target = t]) :
            a \in {"unit_root", "raise"}, bf \in {{}, {1}},
            t \in {[c \in {0, 1} |-> LowOrder], [c \in {0, 1} |-> HighOrder]}}
    \cup {Scenario(FALSE, DataOf(MIN_WEEKS + 1, AllBase, MIN_WEEKS + 1, absent), SmDefault) :
            absent \in Absent}

-----------------------------------------------------------------------------
(* The engine as a state machine *)

Periods == {30}
TopNs == {3}
CategoryArgs == {NoCategory, "cat_x"}

NoCall == [op |-> "none", periods |-> 0, series |-> <<>>, category |-> NoCategory,
           out |-> NoOutcome, top |-> NoTopOutcome]

\* the module is loaded (lines 29-36) and the engine constructed (lines 59-65)
\* on a data snapshot
InitWith(scenarios) ==
    \E sc \in scenarios :
        /\ STATSMODELS_AVAILABLE = sc.available
        /\ order_items = sc.data.order_items
        /\ payments = sc.data.payments
        /\ products = sc.data.products
        /\ deliveries = sc.data.deliveries
        /\ sm = sc.lib
        /\ _demand_cache = <<>>
        /\ call = NoCall

Single(op, periods, r) ==
    /\ _demand_cache' = r.cache
    /\ call' = [op |-> op, periods |-> periods, series |-> r.series,
                category |-> r.category, out |-> r.out, top |-> NoTopOutcome]
    /\ UNCHANGED <<STATSMODELS_AVAILABLE, order_items, payments, products, deliveries, sm>>

ForecastSarima ==
    \E periods \in Periods :
        Single("forecast_sarima", periods,
               forecast_sarima(sm, STATSMODELS_AVAILABLE, _demand_cache, order_items, periods))

ForecastRevenue ==
    \E periods \in Periods :
        Single("forecast_revenue", periods,
               forecast_revenue(sm, STATSMODELS_AVAILABLE, _demand_cache, payments, periods))

ForecastDelayRate ==
    \E periods \in Periods :
        Single("forecast_delay_rate", periods,
               forecast_delay_rate(sm, STATSMODELS_AVAILABLE, _demand_cache, deliveries,
                                   periods))

ForecastCategory ==
    \E periods \in Periods, category \in CategoryArgs :
        Single("forecast_category", periods,
               forecast_category(sm, STATSMODELS_AVAILABLE, _demand_cache, order_items,
                                 products, periods, category))

ForecastTopCategories ==
    \E periods \in Periods, top_n \in TopNs :
        /\ call' = [op |-> "forecast_top_categories", periods |-> periods,
                    series |-> <<>>, category |-> NoCategory, out |-> NoOutcome,
                    top |-> forecast_top_categories(sm, STATSMODELS_AVAILABLE,
                                _demand_cache, order_items, products, periods, top_n)]
        /\ UNCHANGED <<STATSMODELS_AVAILABLE, order_items, payments, products,
                       deliveries, sm, _demand_cache>>

Next ==
    \/ ForecastSarima
    \/ ForecastRevenue
    \/ ForecastDelayRate
    \/ ForecastCategory
    \/ ForecastTopCategories

Init == InitWith(EngineScenarios)

Spec == Init /\ [][Next]_vars

-----------------------------------------------------------------------------
(* The order searches on their own: each behaviour of the unit-root test    *)
(* and of the fits, on training series of both classes                      *)

TrainLens == {MIN_WEEKS - 3, MIN_WEEKS}

\* the first n weeks of the demand series of DefaultData
TrainOf(n) == Prefix(_prepare_demand_series(<<>>, DefaultData.order_items, 12).series, n)

Searched(op, train, params) ==
    /\ call' = [NoCall EXCEPT !.op = op, !.series = train,
                              !.out = [NoOutcome EXCEPT !.params = params,
                                                        !.searched = <<train>>,
                                                        !.steps = <<"search">>]]
    /\ UNCHANGED <<STATSMODELS_AVAILABLE, order_items, payments, products, deliveries,
                   sm, _demand_cache>>

AutoSarimaParams ==
    \E n \in TrainLens :
        Searched("_auto_sarima_params", TrainOf(n), _auto_sarima_params(sm, TrainOf(n)))

AutoSarimaParamsFast ==
    \E n \in TrainLens :
        Searched("_auto_sarima_params_fast", TrainOf(n),
                 _auto_sarima_params_fast(sm, TrainOf(n)))

InitSearch == InitWith({Scenario(TRUE, DefaultData, lib) : lib \in SmSearches})

NextSearch == AutoSarimaParams \/ AutoSarimaParamsFast

SpecSearch == InitSearch /\ [][NextSearch]_vars

-----------------------------------------------------------------------------
(* The holdout evaluation on histories whose last HoldTailLen weeks take    *)
(* every value of TailVals, zero weeks included: one product (one category) *)
(* and one payment per week, with holdout forecasts that miss the actuals   *)

HoldTailLen == 5

HoldTails == [1..HoldTailLen -> TailVals]

HoldoutData(tail) ==
    LET profile == Profile(MIN_WEEKS + HoldTailLen, tail) IN
    [order_items |-> ItemRows("p1", profile, Len(profile)),
     payments    |-> [provided |-> TRUE, rows |-> PaymentRows(profile)],
     products    |-> [provided |-> TRUE, category |-> CategoryOf],
     deliveries  |-> [columns |-> FALSE, rows |-> {}]]

SmFlat == [SmDefault EXCEPT !.pred = "flat"]

\* one product (one category), one payment per week and the deliveries of a
\* history of n weeks with the given tail
BuildData(n, tail) ==
    LET profile == Profile(n, tail) IN
    [order_items |-> ItemRows("p1", profile, n),
     payments    |-> [provided |-> TRUE, rows |-> PaymentRows(profile)],
     products    |-> [provided |-> TRUE, category |-> CategoryOf],
     deliveries  |-> [columns |-> TRUE, rows |-> DeliveryRows(profile)]]

\* and histories of 30 to 60 weeks, with holdout forecasts below zero too
InitHoldout ==
    InitWith({Scenario(TRUE, HoldoutData(tail), SmFlat) : tail \in HoldTails}
             \cup {Scenario(TRUE, BuildData(n, [i \in 1..HoldTailLen |-> BaseLevel]), lib) :
                      n \in {30, 42, 48, 60},
                      lib \in {SmFlat, [SmDefault EXCEPT !.pred = "negative"]}})

NextHoldout == ForecastRevenue \/ ForecastTopCategories

SpecHoldout == InitHoldout /\ [][NextHoldout]_vars

-----------------------------------------------------------------------------
(* The four series builders on their own.  Here call is the last builder    *)
(* call: its arguments, whether it was answered from the cache (hit), what  *)
(* it returned or raised, how many builder calls the engine has served and  *)
(* the calls that had returned a series before this one (built).            *)

BuilderOps == {"_prepare_demand_series", "_prepare_revenue_series",
               "_prepare_delay_rate_series", "_prepare_category_series"}

\* history lengths in weeks: below and at the 8 weeks tail-trim needs, the 20
\* weeks of a short history, and more than the 12-month window
BuildLens == {TRIM_MIN_LEN - 1, TRIM_MIN_LEN, MIN_WEEKS + 4, 60}

\* the calls served so far and those of them that returned a series
CallsSoFar == IF call.op \in BuilderOps THEN call.calls ELSE 0
BuiltSoFar == IF call.op \in BuilderOps THEN call.built ELSE {}

\* a builder call as (builder, history_months, category argument)
BuilderCall(op, history_months, category) == <<op, history_months, category>>

Prepared(op, history_months, category, hit, r) ==
    /\ _demand_cache' = r.cache
    /\ call' = [op |-> op, history_months |-> history_months, category |-> category,
                hit |-> hit, exc |-> r.exc, msg |-> r.msg, series |-> r.series,
                calls |-> CallsSoFar + 1,
                before |-> BuiltSoFar,
                built |-> IF r.exc = "none"
                          THEN BuiltSoFar \cup {BuilderCall(op, history_months, category)}
                          ELSE BuiltSoFar]
    /\ UNCHANGED <<STATSMODELS_AVAILABLE, order_items, payments, products, deliveries, sm>>

\* lines 104-106, 142-144, 179-181: the builder returns the cached series
CacheHit(prefix, history_months) == CacheKey(prefix, history_months) \in DOMAIN _demand_cache

PrepareDemand(limit, months) ==
    /\ CallsSoFar < limit
    /\ \E m \in months :
           Prepared("_prepare_demand_series", m, NoCategory, CacheHit("W", m),
                    _prepare_demand_series(_demand_cache, order_items, m))

PrepareRevenue(limit, months) ==
    /\ CallsSoFar < limit
    /\ \E m \in months :
           Prepared("_prepare_revenue_series", m, NoCategory, CacheHit("REV", m),
                    _prepare_revenue_series(_demand_cache, payments, m))

PrepareDelayRate(limit, months) ==
    /\ CallsSoFar < limit
    /\ \E m \in months :
           Prepared("_prepare_delay_rate_series", m, NoCategory, CacheHit("DELAY", m),
                    _prepare_delay_rate_series(_demand_cache, deliveries, m))

\* lines 226-274 consult no cache
PrepareCategory(limit, months) ==
    /\ CallsSoFar < limit
    /\ \E m \in months :
           Prepared("_prepare_category_series", m, "cat_a", FALSE,
                    _prepare_category_series(_demand_cache, order_items, products, "cat_a", m))

InitBuild ==
    InitWith({Scenario(TRUE, BuildData(n, tail), SmDefault) :
                n \in BuildLens, tail \in HoldTails})

\* one builder call per engine, with the default history_months
NextBuild ==
    \/ PrepareDemand(1, {12})
    \/ PrepareRevenue(1, {12})
    \/ PrepareDelayRate(1, {12})
    \/ PrepareCategory(1, {12})

SpecBuild == InitBuild /\ [][NextBuild]_vars

-----------------------------------------------------------------------------
(* The forecasting operations called with horizons of every size: negative, *)
(* zero, below and above half a week, and the 30 and 90 days of the         *)
(* callers                                                                   *)

Horizons == {0 - 10, 0 - 3, 0, 1, 3, 4, 10, 11, 17, 18, 30, 90}

InitHorizon ==
    InitWith({Scenario(TRUE, d, lib) : d \in {DefaultData, ShortCategoryData},
                                       lib \in {SmDefault, [SmDefault EXCEPT !.fc = "high"]}})

HorizonRevenue ==
    \E periods \in Horizons :
        Single("forecast_revenue", periods,
               forecast_revenue(sm, STATSMODELS_AVAILABLE, _demand_cache, payments, periods))

HorizonCategory ==
    \E periods \in Horizons :
        Single("forecast_category", periods,
               forecast_category(sm, STATSMODELS_AVAILABLE, _demand_cache, order_items,
                                 products, periods, NoCategory))

HorizonTopCategories ==
    \E periods \in Horizons, top_n \in TopNs :
        /\ call' = [op |-> "forecast_top_categories", periods |-> periods,
                    series |-> <<>>, category |-> NoCategory, out |-> NoOutcome,
                    top |-> forecast_top_categories(sm, STATSMODELS_AVAILABLE,
                                _demand_cache, order_items, products, periods, top_n)]
        /\ UNCHANGED <<STATSMODELS_AVAILABLE, order_items, payments, products,
                       deliveries, sm, _demand_cache>>

NextHorizon ==
    \/ HorizonRevenue
    \/ HorizonCategory
    \/ HorizonTopCategories

SpecHorizon == InitHorizon /\ [][NextHorizon]_vars

-----------------------------------------------------------------------------
(* One engine serving several builder calls in a row, with two history      *)
(* windows, so that calls repeat and keys differ                             *)

MaxCalls == 3
CacheMonths == {6, 12}

InitCache ==
    InitWith({Scenario(TRUE, BuildData(MIN_WEEKS + 4, tail), SmDefault) :
                 tail \in {[i \in 1..HoldTailLen |-> v] : v \in TailVals}})

NextCache ==
    \/ PrepareDemand(MaxCalls, CacheMonths)
    \/ PrepareRevenue(MaxCalls, CacheMonths)
    \/ PrepareDelayRate(MaxCalls, CacheMonths)
    \/ PrepareCategory(MaxCalls, CacheMonths)

SpecCache == InitCache /\ [][NextCache]_vars

-----------------------------------------------------------------------------
(* One engine serving several forecast calls in a row.  Here call also      *)
(* keeps the number of calls served, the cache the call found and the call  *)
(* before it (prev).                                                         *)

CallCount == IF "calls" \in DOMAIN call THEN call.calls ELSE 0

Served(op, periods, arg, out, top, series, category, cache) ==
    /\ CallCount < MaxCalls
    /\ _demand_cache' = cache
    /\ call' = [op |-> op, periods |-> periods, arg |-> arg, series |-> series,
                category |-> category, out |-> out, top |-> top,
                calls |-> CallCount + 1, found |-> _demand_cache,
                prev |-> [op |-> call.op, periods |-> call.periods,
                          arg |-> IF "arg" \in DOMAIN call THEN call.arg ELSE NoCategory,
                          out |-> call.out, top |-> call.top]]
    /\ UNCHANGED <<STATSMODELS_AVAILABLE, order_items, payments, products, deliveries, sm>>

ServedSingle(op, periods, arg, r) ==
    Served(op, periods, arg, r.out, NoTopOutcome, r.series, r.category, r.cache)

InitTwice ==
    InitWith({Scenario(TRUE, DataOf(MIN_WEEKS + 1, tail, MIN_WEEKS + 1, "nothing"), SmDefault) :
                 tail \in Tails}
             \cup {Scenario(TRUE, DefaultData, lib) : lib \in SmVariants})

NextTwice ==
    \/ \E periods \in Periods :
          ServedSingle("forecast_sarima", periods, NoCategory,
              forecast_sarima(sm, STATSMODELS_AVAILABLE, _demand_cache, order_items, periods))
    \/ \E periods \in Periods :
          ServedSingle("forecast_revenue", periods, NoCategory,
              forecast_revenue(sm, STATSMODELS_AVAILABLE, _demand_cache, payments, periods))
    \/ \E periods \in Periods :
          ServedSingle("forecast_delay_rate", periods, NoCategory,
              forecast_delay_rate(sm, STATSMODELS_AVAILABLE, _demand_cache, deliveries,
                                  periods))
    \/ \E periods \in Periods :
          ServedSingle("forecast_category", periods, NoCategory,
              forecast_category(sm, STATSMODELS_AVAILABLE, _demand_cache, order_items,
                                products, periods, NoCategory))
    \/ \E periods \in Periods, top_n \in TopNs :
          Served("forecast_top_categories", periods, NoCategory, NoOutcome,
                 forecast_top_categories(sm, STATSMODELS_AVAILABLE, _demand_cache,
                                         order_items, products, periods, top_n),
                 <<>>, NoCategory, _demand_cache)

SpecTwice == InitTwice /\ [][NextTwice]_vars

-----------------------------------------------------------------------------
(* Properties.  call is the last operation called and what it left behind.  *)

SingleOps == {"forecast_sarima", "forecast_revenue", "forecast_delay_rate",
              "forecast_category"}

\* a pipeline run that returned its forecast
Succeeded(out) == out.raised = "none" /\ out.error = "" /\ out.forecast_df # <<>>

\* the last call was a single-series operation whose pipeline run succeeded
SingleSucceeded == call.op \in SingleOps /\ Succeeded(call.out)

\* the passes of the loop of the last forecast_top_categories call
Passes == call.top.passes

\* the fit and forecast steps of a run
ModelSteps == {"search", "fit", "forecast"}
NoModelStep(steps) == \A i \in 1..Len(steps) : steps[i] \notin ModelSteps

\* C1: in the pipeline, a MAPE computed in-sample (the walk-forward evaluation
\* raised) is returned with mape_label "in-sample", and the label
\* "walk-forward" is returned only with a MAPE computed from the holdout
\* forecast.
C1_LabelFollowsMapeSource ==
    SingleSucceeded =>
        /\ call.out.mape_source = "in-sample" => call.out.mape_label = "in-sample"
        /\ call.out.mape_label = "walk-forward" => call.out.mape_source = "holdout"

\* C2: whatever fails inside one of the five public operations (the series
\* builder, the final fit on the full series, the forward forecast), the
\* operation returns a result with an error message and no exception reaches
\* the caller.
C2_NoExceptionReachesCaller ==
    call.op # "none" =>
        /\ call.out.raised = "none"
        /\ call.top.raised = "none"
        /\ (call.op \in SingleOps /\ call.out.forecast_df = <<>>) => call.out.error # ""

\* the category names that occur in the dict forecast_top_categories returns
ReturnedNames(top) == {top.categories[i] : i \in 1..Len(top.categories)}

\* C3: when k of the top_n categories have at least 16 weeks of history,
\* forecast_top_categories returns no top-level error, returns exactly those
\* k categories as results, and reports each other category as skipped, with
\* the reason, in what it returns.
C3_SkippedCategoriesReported ==
    (call.op = "forecast_top_categories" /\ Passes # <<>>) =>
        /\ call.top.error = ""
        /\ \A i \in 1..Len(Passes) :
              Passes[i].name \in ReturnedNames(call.top)

\* C4: a single-series operation whose built series (after aggregation,
\* history window and tail-trim) has fewer than 16 weeks returns the error
\* that carries the week count of that series, and runs no order search, fit
\* or forecast.
C4_ShortSeriesFailsFast ==
    (call.op \in SingleOps /\ call.series # <<>> /\ Len(call.series) < 16) =>
        /\ call.out.raised = "none"
        /\ call.out.error = WEEKS_MSG
        /\ call.out.error_weeks = Len(call.series)
        /\ call.out.forecast_df = <<>>
        /\ NoModelStep(call.out.steps)

\* forecast_sarima was handed a 17-week history that tail-trim cut below 16
C4_TrimmedBelowMinimum ==
    /\ call.op = "forecast_sarima"
    /\ call.series # <<>>
    /\ Len(call.series) < 16
    /\ call.out.error_weeks = 15

\* C5: with STATSMODELS_AVAILABLE false each of the five operations returns
\* the statsmodels error as its first step: no series is built, the cache is
\* not written, no fit is attempted.
C5_UnavailableLibraryFailsFirst ==
    (~STATSMODELS_AVAILABLE /\ call.op # "none") =>
        /\ _demand_cache = <<>>
        /\ call.series = <<>>
        /\ call.out.raised = "none"
        /\ call.out.steps = <<>>
        /\ Passes = <<>>
        /\ IF call.op = "forecast_top_categories"
           THEN call.top.error = STATSMODELS_MSG
           ELSE call.out.error = STATSMODELS_MSG

\* forecast_revenue was called without the library
C5_CalledWithoutLibrary ==
    ~STATSMODELS_AVAILABLE /\ call.op = "forecast_revenue" /\ payments.provided

\* the data the last operation needs is absent, and the message naming it
NeedsAbsentData ==
    \/ call.op = "forecast_revenue" /\ ~payments.provided
    \/ call.op = "forecast_delay_rate" /\ ~deliveries.columns
    \/ call.op \in {"forecast_category", "forecast_top_categories"} /\ ~products.provided

MissingDataMsg ==
    CASE call.op = "forecast_revenue" -> PAYMENTS_MSG
      [] call.op = "forecast_delay_rate" -> COLUMNS_MSG
      [] OTHER -> PRODUCTS_MSG

\* C6: an operation whose external data is absent (payments for
\* forecast_revenue, the delivery columns for forecast_delay_rate, the
\* products table for forecast_category and forecast_top_categories) returns
\* an error whose message names what is missing, and attempts no fit; when
\* the library is missing as well, that is what the message names (C5).
C6_AbsentDataIsNamed ==
    NeedsAbsentData =>
        /\ call.out.raised = "none"
        /\ NoModelStep(call.out.steps)
        /\ Passes = <<>>
        /\ (IF call.op = "forecast_top_categories" THEN call.top.error
            ELSE call.out.error)
             = (IF STATSMODELS_AVAILABLE THEN MissingDataMsg ELSE STATSMODELS_MSG)

\* forecast_delay_rate was called, with the library, on orders without the
\* delivery columns
C6_DeliveryColumnsMissing ==
    STATSMODELS_AVAILABLE /\ call.op = "forecast_delay_rate" /\ ~deliveries.columns

\* the last call was one of the two order searches
SearchOps == {"_auto_sarima_params", "_auto_sarima_params_fast"}

\* C7: every order either search returns has d + D <= 1, whatever the
\* unit-root test says and whichever fits fail, the default order (every fit
\* failed) included.
C7_TotalDifferencingAtMostOne ==
    call.op \in SearchOps =>
        /\ call.out.params.order[2] \in {0, 1}
        /\ call.out.params.seasonal_order[2] \in {0, 1}
        /\ call.out.params.order[2] + call.out.params.seasonal_order[2] <= 1

\* the full search returned a fitted order with d = 1 although the lowest
\* AIC is at an order with D = 1
C7_UnitRootSearchAvoidsSeasonalDifference ==
    /\ call.op = "_auto_sarima_params"
    /\ sm.adf = "unit_root"
    /\ sm.gridFail = "none"
    /\ sm.target[SeriesClass(call.series)].D = 1
    /\ call.out.params.aic < Inf
    /\ call.out.params.order[2] = 1

\* C8: on a successful pipeline run the order of the final fit, and the order
\* and AIC of the result, are what the order search returns on the entire
\* series; nothing of the evaluation on the training part but its MAPE
\* reaches the result.
C8_OrderSearchedOnEntireSeries ==
    SingleSucceeded =>
        /\ call.out.params = _auto_sarima_params(sm, call.series)
        /\ call.out.searched = <<call.series>>

\* the mean absolute percentage error over the weeks with a nonzero actual,
\* in whole percent; 0 when there is none
MapeOverNonzero(actual, pred) ==
    LET nz == {i \in 1..Len(actual) : actual[i] # 0} IN
    IF nz = {} THEN 0
    ELSE SumOver([i \in nz |-> (Abs(actual[i] - pred[i]) * 100) \div actual[i]], nz)
            \div Cardinality(nz)

\* C9: a holdout MAPE, of the pipeline and of each category of
\* forecast_top_categories, is the mean absolute percentage error over
\* exactly the holdout weeks whose actual is nonzero, and is 0 (no division
\* error) when every holdout actual is zero.
C9_HoldoutMapeOverNonzeroActuals ==
    /\ (SingleSucceeded /\ call.out.mape_source = "holdout") =>
          /\ call.out.test = Vals(Suffix(call.series, HoldoutWeeks(Len(call.series))))
          /\ call.out.mape = MapeOverNonzero(call.out.test, call.out.pred_val)
    /\ \A i \in 1..Len(Passes) :
          (Passes[i].status = "ok" /\ Passes[i].out.mape_source = "holdout") =>
              /\ Len(Passes[i].out.test) = HoldoutWeeks(Passes[i].weeks)
              /\ Passes[i].out.mape =
                    MapeOverNonzero(Passes[i].out.test, Passes[i].out.pred_val)

\* the pipeline evaluated a holdout whose actuals are all zero
C9_AllZeroHoldout ==
    /\ SingleSucceeded
    /\ call.out.mape_source = "holdout"
    /\ \A i \in 1..Len(call.out.test) : call.out.test[i] = 0
    /\ call.out.mape = 0

\* C10: every successful pipeline run carries a number as its MAPE, for a
\* single-series operation and for every category in the result of
\* forecast_top_categories.
C10_MapeIsANumber ==
    /\ SingleSucceeded => call.out.mape # None
    /\ \A i \in 1..Len(Passes) :
          Passes[i].status = "ok" => Passes[i].out.mape # None

\* the last call was a builder call that returned a series
BuilderReturned == call.op \in BuilderOps /\ call.exc = "none"

\* the last call was a call of a builder that tail-trims, and it aggregated
TrimmedCall ==
    /\ BuilderReturned
    /\ call.op # "_prepare_delay_rate_series"
    /\ ~call.hit

\* the weekly series the last builder call handed to _tail_trim (lines
\* 128-129, 166-167, 266-267)
TrimInput ==
    CASE call.op = "_prepare_demand_series" ->
            Window(WeeklyTotals(order_items, "n"), call.history_months)
      [] call.op = "_prepare_revenue_series" ->
            Window(WeeklyTotals(payments.rows, "payment_value"), call.history_months)
      [] call.op = "_prepare_category_series" ->
            Window(WeeklyTotals(CategoryRows(order_items, products, call.category), "n"),
                   call.history_months)

\* twice the median of the four values before position k: of four numbers the
\* median is the mean of the two that are neither the least nor the greatest
MedianOfFourBefore2(v, k) ==
    LET w == {k - 4, k - 3, k - 2, k - 1} IN
    SumOver([i \in w |-> v[i]], w) - SetMin({v[i] : i \in w}) - SetMax({v[i] : i \in w})

\* v[k] is strictly below 70% of the median of the four values before it
Below70(v, k) == k > 4 /\ 20 * v[k] < 7 * MedianOfFourBefore2(v, k)

\* C11: _tail_trim removes at most min(4, len \div 8) trailing points of its
\* input, and each point it removes is strictly below 70% of the median of
\* the four points before it.
C11_TailTrimBounded ==
    TrimmedCall =>
        LET input == Vals(TrimInput)
            kept  == Len(call.series)
        IN  /\ kept <= Len(input)
            /\ call.series = Prefix(TrimInput, kept)
            /\ Len(input) - kept <= Min(4, Len(input) \div 8)
            /\ \A k \in (kept + 1)..Len(input) : Below70(input, k)

\* the cap of four stopped the trim: four points were removed and the last
\* point kept is below 70% of the median before it as well
C11_CapOfFourBinds ==
    /\ TrimmedCall
    /\ Len(TrimInput) - Len(call.series) = 4
    /\ Below70(Vals(TrimInput), Len(call.series))

\* the final week of v is below 70% of the median of its four preceding
\* weeks and the week before it is not below 70% of the median of its own
FinalWeekOutlier(v) ==
    /\ Len(v) >= 6
    /\ Below70(v, Len(v))
    /\ ~Below70(v, Len(v) - 1)

\* C12 as stated: for a weekly series whose final week is such an outlier,
\* tail-trim removes exactly the final week.
C12_FinalOutlierRemoved ==
    (TrimmedCall /\ FinalWeekOutlier(Vals(TrimInput))) =>
        call.series = Prefix(TrimInput, Len(TrimInput) - 1)

\* C12: for a weekly series of at least 8 weeks whose final week is such an
\* outlier, tail-trim removes exactly the final week (a series of fewer than
\* 8 weeks is not trimmed: its cap len \div 8 is 0).
C12_FinalOutlierRemovedFromEightWeeks ==
    (TrimmedCall /\ Len(TrimInput) >= 8 /\ FinalWeekOutlier(Vals(TrimInput))) =>
        call.series = Prefix(TrimInput, Len(TrimInput) - 1)

\* the demand series of 20 weeks at BaseLevel ending in 2 came back with 19
C12_TwentyWeeksBecomeNineteen ==
    /\ call.op = "_prepare_demand_series"
    /\ call.exc = "none"
    /\ Len(TrimInput) = 20
    /\ TrimInput[20].val = 2
    /\ \A i \in 1..19 : TrimInput[i].val = BaseLevel
    /\ Len(call.series) = 19

\* C13: the series of each of the four builders has strictly increasing
\* dates, consecutive dates exactly 7 days apart.
C13_SevenDaySpacing ==
    BuilderReturned =>
        \A i \in 1..(Len(call.series) - 1) :
            call.series[i + 1].date = call.series[i].date + 7

\* the delay-rate builder returned a series cut by the history window, with a
\* week that had too few deliveries to be observed
C13_WindowedAndInterpolated ==
    /\ call.op = "_prepare_delay_rate_series"
    /\ call.exc = "none"
    /\ Len(call.series) < Cardinality({WeekOf(r.day) : r \in deliveries.rows})
    /\ \E i \in 1..Len(call.series) :
          \A r \in deliveries.rows :
              WeekOf(r.day) = call.series[i].date => r.total < MIN_DELIVERIES

\* the forecast frames the last call returned: the frame of a single-series
\* operation, or the frames of the categories of forecast_top_categories
ReturnedFrames ==
    IF call.op \in SingleOps
    THEN IF Succeeded(call.out) THEN {call.out.forecast_df} ELSE {}
    ELSE IF call.op = "forecast_top_categories"
    THEN {Passes[i].out.forecast_df : i \in {j \in 1..Len(Passes) : Passes[j].status = "ok"}}
    ELSE {}

\* w is max(1, round(horizon_days / 7)): 1 up to 3 days, else the whole
\* number of weeks within 3 days of the horizon
WeeksFor(horizon_days, w) ==
    /\ horizon_days <= 3 => w = 1
    /\ horizon_days > 3 => (w >= 1 /\ Abs(DAYS_PER_WEEK * w - horizon_days) <= 3)
    /\ horizon_days = 30 => w = 4
    /\ horizon_days = 90 => w = 13

\* C14: the number of forecast weeks is max(1, round(horizon_days / 7)) and
\* every returned forecast frame, of the pipeline and of
\* forecast_top_categories, has exactly that many rows.
C14_RowsAreRoundedWeeks ==
    \A forecast_df \in ReturnedFrames : WeeksFor(call.periods, Len(forecast_df))

\* forecast_top_categories returned 13 weeks per category for 90 days
C14_NinetyDaysThirteenWeeks ==
    /\ call.op = "forecast_top_categories"
    /\ call.periods = 90
    /\ ReturnedFrames # {}
    /\ \A forecast_df \in ReturnedFrames : Len(forecast_df) = 13

\* C15: in every week of every returned forecast, lower <= forecast <= upper
\* after the clip (the raw interval of the library brackets its mean).
C15_BoundsOrdered ==
    \A forecast_df \in ReturnedFrames :
        \A k \in 1..Len(forecast_df) :
            /\ forecast_df[k].lower <= forecast_df[k].forecast
            /\ forecast_df[k].forecast <= forecast_df[k].upper

\* a forecast below zero whose interval straddles zero came back as
\* 0 <= 0 < upper
C15_ClippedAtZero ==
    /\ sm.fc = "negative"
    /\ \E forecast_df \in ReturnedFrames :
          /\ forecast_df[1].lower = 0
          /\ forecast_df[1].forecast = 0
          /\ forecast_df[1].upper > 0

\* x is a percentage
Percentage(x) == 0 <= x /\ x <= 100

\* C16: every point estimate, lower bound and upper bound that
\* forecast_delay_rate returns lies in [0, 100], and so does every value of
\* the weekly delay-rate series fed to the model.
C16_DelayRateIsAPercentage ==
    call.op = "forecast_delay_rate" =>
        /\ \A i \in 1..Len(call.series) : Percentage(call.series[i].val)
        /\ \A k \in 1..Len(call.out.forecast_df) :
              /\ Percentage(call.out.forecast_df[k].forecast)
              /\ Percentage(call.out.forecast_df[k].lower)
              /\ Percentage(call.out.forecast_df[k].upper)

\* the library forecast more than 100% with an interval from below 100%,
\* and the frame came back capped
C16_CappedAtHundred ==
    /\ call.op = "forecast_delay_rate"
    /\ Succeeded(call.out)
    /\ sm.fc = "over"
    /\ call.out.forecast_df[1].forecast = 100
    /\ call.out.forecast_df[1].upper = 100
    /\ call.out.forecast_df[1].lower < 100

\* sum of the squares of n * v[i] - S, which is n^2 * (n - 1) * std^2
SquaredDeviations(v, n, S) ==
    SumSeq(AsSeq([i \in 1..n |-> (n * v[i] - S) * (n * v[i] - S)]))

\* the label of a final forecast a / n away from the mean of n values with
\* the given squared deviations: 5 * |last_fc - mean| > std, by sign
LabelOf(n, a, dev2) ==
    IF a > 0 /\ 25 * a * a * (n - 1) > dev2 THEN "increasing"
    ELSE IF a < 0 /\ 25 * a * a * (n - 1) > dev2 THEN "decreasing"
    ELSE "stable"

\* the label for history v and the last row of forecast_df
LabelFor(v, forecast_df) ==
    LabelOf(Len(v), Len(v) * forecast_df[Len(forecast_df)].forecast - SumSeq(v),
            SquaredDeviations(v, Len(v), SumSeq(v)))

\* the series forecast_top_categories built for the category of pass i
SeriesOfPass(i) ==
    _prepare_category_series(_demand_cache, order_items, products, Passes[i].name, 12).series

\* C17: the trend label is decided by the clipped point estimate of the final
\* forecast week alone: increasing above mean + 0.2 * std of the history,
\* decreasing below mean - 0.2 * std, stable otherwise.
C17_TrendFromFinalWeek ==
    /\ SingleSucceeded =>
          call.out.trend = LabelFor(Vals(call.series), call.out.forecast_df)
    /\ call.op = "forecast_top_categories" =>
          \A i \in 1..Len(Passes) :
              Passes[i].status = "ok" =>
                  Passes[i].out.trend = LabelFor(Vals(SeriesOfPass(i)), Passes[i].out.forecast_df)

\* a final forecast less than one standard deviation above the mean, more
\* than a fifth of one, was labelled increasing (with 25 times the squared
\* deviations the band is one standard deviation wide)
C17_IncreasingWithinOneStd ==
    /\ SingleSucceeded
    /\ call.out.trend = "increasing"
    /\ LabelOf(Len(call.series),
               Len(call.series) * call.out.forecast_df[Len(call.out.forecast_df)].forecast
                   - SumSeq(Vals(call.series)),
               25 * SquaredDeviations(Vals(call.series), Len(call.series),
                                      SumSeq(Vals(call.series)))) = "stable"

\* the full fit and the forecast on series with the order found on train
FullFitSucceeds(series, params) ==
    /\ ~FitRaises(sm, series, params.order, params.seasonal_order)
    /\ ~ForecastRaises(sm, series)

\* the series built for a category is long enough and can be fit and forecast
BuiltSucceeds(built) ==
    /\ built.exc = "none"
    /\ Len(built.series) >= MIN_WEEKS
    /\ FullFitSucceeds(built.series,
            _auto_sarima_params_fast(sm,
                Prefix(built.series, Len(built.series) - HoldoutWeeks(Len(built.series)))))

\* the build, the order search, the full fit and the forecast of cat_name
\* all succeed, on 16 weeks or more
CategorySucceeds(cat_name) ==
    BuiltSucceeds(_prepare_category_series(_demand_cache, order_items, products, cat_name, 12))

\* the top-N categories of the last call
TopCatsOfCall == UNION {{TopCats(order_items, products, top_n)} : top_n \in TopNs}

\* C18: forecast_top_categories returns exactly the top-N categories whose
\* own build, order search, full fit and forecast succeeded on 16 weeks or
\* more, whatever happened to the others, and a top-level error only when
\* none of them succeeded.
C18_PartialResults ==
    (call.op = "forecast_top_categories" /\ STATSMODELS_AVAILABLE /\ products.provided) =>
        \A top_cats \in TopCatsOfCall :
            LET succeeded == {c \in {top_cats[i] : i \in 1..Len(top_cats)} : CategorySucceeds(c)}
            IN  /\ call.top.raised = "none"
                /\ {call.top.categories[i] : i \in 1..Len(call.top.categories)} = succeeded
                /\ Len(call.top.categories) = Cardinality(succeeded)
                /\ (call.top.error # "") <=> (succeeded = {})

\* one category raised in its fit while another was returned
C18_OneFailedOneReturned ==
    /\ call.op = "forecast_top_categories"
    /\ call.top.error = ""
    /\ \E i, j \in 1..Len(Passes) :
          /\ Passes[i].status = "failed"
          /\ "fit" \in {Passes[i].out.steps[k] : k \in 1..Len(Passes[i].out.steps)}
          /\ Passes[j].status = "ok"

\* the sum of the forecast column of the category returned under name
ForecastTotal(name) ==
    LET i == CHOOSE j \in 1..Len(Passes) : Passes[j].name = name /\ Passes[j].status = "ok"
    IN  SumSeq(AsSeq([k \in 1..Len(Passes[i].out.forecast_df) |->
                         Passes[i].out.forecast_df[k].forecast]))

\* C19: the categories of forecast_top_categories (summary rows and the
\* categories list, both in the order of category_results) are ordered by
\* forecast average, highest first.
C19_RankedByForecastAverage ==
    call.op = "forecast_top_categories" =>
        \A i, j \in 1..Len(call.top.categories) :
            i < j => ForecastTotal(call.top.categories[i]) >= ForecastTotal(call.top.categories[j])

\* the last builder call repeats an earlier call that returned a series
RepeatedCall ==
    /\ call.op \in BuilderOps
    /\ BuilderCall(call.op, call.history_months, call.category) \in call.before

\* C20: once a builder has produced a series for a (metric, history_months)
\* key, every later call of that builder with the same key is answered from
\* the cache, without aggregating the source data again; this for all four
\* builders.
C20_RepeatedCallAnsweredFromCache == RepeatedCall => call.hit

\* the same for the three builders that keep their series in _demand_cache
C20_CachingBuildersAnswerFromCache ==
    (RepeatedCall /\ call.op # "_prepare_category_series") => call.hit

\* C20, second part: a builder call leaves every entry of the cache as it
\* was, so entries of different keys never overwrite each other.
C20_EntriesNeverOverwritten ==
    [][\A key \in DOMAIN _demand_cache :
          key \in DOMAIN _demand_cache' /\ _demand_cache'[key] = _demand_cache[key]]_vars

\* the last call repeats the call before it: same operation, same arguments
SameCallTwice ==
    /\ CallCount >= 2
    /\ call.prev.op = call.op
    /\ call.prev.periods = call.periods
    /\ call.prev.arg = call.arg

\* ModelOrder and AIC, MAPE and the forecast of a pipeline outcome, and how
\* the run ended
Essentials(out) ==
    [params |-> out.params, mape |-> out.mape, forecast_df |-> out.forecast_df,
     trend |-> out.trend, error |-> out.error, raised |-> out.raised]

\* the same of every category of a forecast_top_categories outcome
TopEssentials(top) ==
    [error |-> top.error, raised |-> top.raised, categories |-> top.categories,
     passes |-> [i \in 1..Len(top.passes) |->
                    [name |-> top.passes[i].name, status |-> top.passes[i].status,
                     out |-> Essentials(top.passes[i].out)]]]

\* C21: the same forecast operation called twice on one engine with unchanged
\* data yields the same ModelOrder, AIC, MAPE and point forecasts: the second
\* result does not depend on what the first call left in the cache.
C21_SecondCallSameResult ==
    SameCallTwice =>
        /\ Essentials(call.out) = Essentials(call.prev.out)
        /\ TopEssentials(call.top) = TopEssentials(call.prev.top)

\* forecast_revenue was called again, found its series in the cache the
\* first call had filled, and returned a forecast
C21_SecondCallFromCache ==
    /\ SameCallTwice
    /\ call.op = "forecast_revenue"
    /\ CallCount = 2
    /\ CacheKey("REV", 12) \in DOMAIN call.found
    /\ Succeeded(call.out)

\* the order and the seasonal order of grid combination c with differencing d
OrderOf(c, d) == Order(c.p, d, c.q)
SeasonalOf(c) == Seasonal(c.P, c.D, c.Q, SEASON)

\* the combinations of grid that a search on train with differencing d may
\* return: those with d + D <= 1 (full search) whose fit does not raise
Fitted(grid, full, train, d) ==
    {i \in DOMAIN grid :
        /\ full => d + grid[i].D <= 1
        /\ ~FitRaises(sm, train, OrderOf(grid[i], d), SeasonalOf(grid[i]))}

\* params is a combination of Fitted with its AIC, and no combination of
\* Fitted has a lower AIC
MinimumAic(params, grid, full, train, d) ==
    /\ \E i \in Fitted(grid, full, train, d) :
          /\ params.order = OrderOf(grid[i], d)
          /\ params.seasonal_order = SeasonalOf(grid[i])
          /\ params.aic = AicOf(sm, train, params.order, params.seasonal_order)
    /\ \A i \in Fitted(grid, full, train, d) :
          params.aic <= AicOf(sm, train, OrderOf(grid[i], d), SeasonalOf(grid[i]))

\* the grid of the search that was called
GridOfCall == IF call.op = "_auto_sarima_params" THEN FullGrid ELSE FastGrid

\* C22: an order search returns a combination of minimum AIC among exactly
\* the grid combinations that pass the d + D <= 1 guard and whose fit
\* succeeded; a combination whose fit raises is skipped.
C22_MinimumAicAmongFitted ==
    (call.op \in SearchOps
        /\ Fitted(GridOfCall, call.op = "_auto_sarima_params", call.series,
                  call.out.params.order[2]) # {}) =>
        MinimumAic(call.out.params, GridOfCall, call.op = "_auto_sarima_params",
                   call.series, call.out.params.order[2])

\* the combination of lowest AIC of the grid raises in its fit, and the full
\* search returned another combination, fitted, of higher AIC
C22_BestCombinationFailsToFit ==
    /\ call.op = "_auto_sarima_params"
    /\ sm.gridFail = "AR"
    /\ sm.target[SeriesClass(call.series)] = HighOrder
    /\ call.out.params.aic > AIC_BASE
    /\ call.out.params.aic < Inf

\* C24: in both order searches d is 1 exactly when the p-value of the
\* unit-root test exceeds 0.05 or the test raises, and 0 otherwise; the
\* returned order, fitted or default, carries that d.
C24_DifferencingFromUnitRootTest ==
    call.op \in SearchOps =>
        /\ call.out.params.order[2] \in {0, 1}
        /\ call.out.params.order[2] = 1 <=>
              (sm.adf = "raise" \/ (sm.adf # "raise" /\ PValue(sm.adf) > 50))

\* the test returned a p-value of exactly 0.05 and the search, with fits
\* that succeed, returned an order with d = 0
C24_PValueAtThreshold ==
    /\ call.op \in SearchOps
    /\ sm.adf = "threshold"
    /\ call.out.params.aic < Inf
    /\ call.out.params.order[2] = 0

\* the combinations of grid that a search with differencing d fits: those
\* the search keeps when every fit succeeds and nothing was kept before
Attempted(grid, full, train, d) ==
    {i \in DOMAIN grid :
        Visit(SmDefault, train, d, full, [NoParams EXCEPT !.aic = Inf], grid[i])
            # [NoParams EXCEPT !.aic = Inf]}

\* the fixed default order of a search with differencing d
DefaultOrder(full, d) ==
    [order |-> <<1, d, 1>>,
     seasonal_order |-> IF full THEN <<1, IF d = 0 THEN 1 ELSE 0, 1, 4>> ELSE <<0, 0, 1, 4>>,
     aic |-> Inf]

\* a search on train in which every fit raises came back as params
FellBack(params, grid, full, train) ==
    Fitted(grid, full, train, params.order[2]) = {} => params = DefaultOrder(full, params.order[2])

\* C23: when every combination of the grid fails to fit, the search raises
\* nothing and returns the default order, (1,d,1)(1,max(0,1-d),1,4) in full
\* mode and (1,d,1)(0,0,1,4) in fast mode, with AIC +infinity, and the run
\* goes on to the final fit with that order.
C23_DefaultOrderWhenNoFit ==
    /\ SingleSucceeded =>
          FellBack(call.out.params, FullGrid, TRUE, call.out.searched[1])
    /\ call.op = "forecast_top_categories" =>
          \A i \in 1..Len(Passes) :
              Passes[i].status = "ok" =>
                  FellBack(Passes[i].out.params, FastGrid, FALSE, Passes[i].out.searched[1])

\* no fit on the training part succeeded, with a unit root found, and the
\* run returned its forecast from the final fit with the default order
C23_ForecastFromDefaultOrder ==
    /\ SingleSucceeded
    /\ sm.adf = "unit_root"
    /\ Fitted(FullGrid, TRUE, call.out.searched[1], 1) = {}
    /\ call.out.params.aic = Inf
    /\ call.out.steps[Len(call.out.steps)] = "forecast"

\* the four-fold grid over {0, 1} with D = 0
ReducedGrid == [p : {0, 1}, q : {0, 1}, P : {0, 1}, Q : {0, 1}, D : {0}]

\* params came from a full-mode search on train: 72 combinations attempted
\* with d = 0 and 36 with d = 1, the minimum AIC of those that fit returned
FullMode(params, train) ==
    /\ Cardinality(Attempted(FullGrid, TRUE, train, params.order[2]))
          = IF params.order[2] = 0 THEN 72 ELSE 36
    /\ Fitted(FullGrid, TRUE, train, params.order[2]) # {} =>
          MinimumAic(params, FullGrid, TRUE, train, params.order[2])

\* params came from a fast-mode search on train: exactly the 16 combinations
\* of ReducedGrid attempted, the minimum AIC of those that fit returned
FastMode(params, train) ==
    /\ Cardinality(Attempted(FastGrid, FALSE, train, params.order[2])) = 16
    /\ {FastGrid[i] : i \in Attempted(FastGrid, FALSE, train, params.order[2])} = ReducedGrid
    /\ Fitted(FastGrid, FALSE, train, params.order[2]) # {} =>
          MinimumAic(params, FastGrid, FALSE, train, params.order[2])

\* C26: the fast search attempts exactly the 16 combinations of (p, q) and
\* (P, Q) over {0, 1} with D = 0, the full search 72 combinations with d = 0
\* and 36 with d = 1; forecast_top_categories searches in fast mode for every
\* category and the single-series operations in full mode.
C26_FastForCategoriesFullForSingle ==
    /\ SingleSucceeded => FullMode(call.out.params, call.out.searched[1])
    /\ call.op = "forecast_top_categories" =>
          \A i \in 1..Len(Passes) :
              Passes[i].status = "ok" =>
                  FastMode(Passes[i].out.params, Passes[i].out.searched[1])

\* the lowest AIC is at an order outside the reduced grid, and a category
\* came back with a fitted order of the reduced grid and a higher AIC
C26_CategoryOrderFromReducedGrid ==
    /\ call.op = "forecast_top_categories"
    /\ \E i \in 1..Len(Passes) :
          /\ Passes[i].status = "ok"
          /\ sm.target[SeriesClass(Passes[i].out.searched[1])] = HighOrder
          /\ Passes[i].out.params.aic > AIC_BASE
          /\ Passes[i].out.params.aic < Inf
          /\ Passes[i].out.params.order[1] <= 1
          /\ Passes[i].out.params.seasonal_order[2] = 0

\* a category came back with the fast default order after every fit on its
\* training part had raised
C23_CategoryFromDefaultOrder ==
    /\ call.op = "forecast_top_categories"
    /\ \E i \in 1..Len(Passes) :
          /\ Passes[i].status = "ok"
          /\ Passes[i].out.params = DefaultOrder(FALSE, 0)

\* min(8, max(4, floor(n / 6)))
ClampedSixth(n) == IF n \div 6 < 4 THEN 4 ELSE IF n \div 6 > 8 THEN 8 ELSE n \div 6

\* out is the outcome of a run on series split into the first n - h weeks, on
\* which the order was searched, and the last h, which the walk-forward
\* forecast (if it did not raise) predicted in h steps, none below zero
SplitAt(series, out, h) ==
    /\ Len(series) >= 16
    /\ out.searched[1] = SubSeq(series, 1, Len(series) - h)
    /\ out.searched[1] \o SubSeq(series, Len(series) - h + 1, Len(series)) = series
    /\ out.mape_source = "holdout" =>
          /\ out.test = Vals(SubSeq(series, Len(series) - h + 1, Len(series)))
          /\ Len(out.pred_val) = h
          /\ \A i \in 1..h : out.pred_val[i] >= 0

C27_OnlyTheCacheIsWritten ==
    [][/\ order_items' = order_items
       /\ payments' = payments
       /\ products' = products
       /\ deliveries' = deliveries
       /\ \A key \in DOMAIN _demand_cache :
             /\ key \in DOMAIN _demand_cache'
             /\ _demand_cache'[key] = _demand_cache[key]]_vars

\* after calls that filled the cache with the three series, forecast_sarima
\* forecast from the cached demand series, which is still in the cache as
\* _prepare_demand_series builds it
C27_ForecastFromCachedSeries ==
    /\ call.op = "forecast_sarima"
    /\ Succeeded(call.out)
    /\ DOMAIN _demand_cache = {CacheKey("W", 12), CacheKey("REV", 12), CacheKey("DELAY", 12)}
    /\ _demand_cache[CacheKey("W", 12)] = call.series
    /\ call.series = _prepare_demand_series(<<>>, order_items, 12).series

\* trimming cannot pass week j of v: it has fewer than four weeks before it,
\* or their median is not positive, or the week is not below 70% of it
StopsTrim(v, j) ==
    \/ j <= 4
    \/ MedianOfFourBefore2(v, j) <= 0
    \/ 20 * v[j] >= 7 * MedianOfFourBefore2(v, j)

\* output is input cut after some week, and no week that stops the trim was
\* cut off (v are the values of input)
TrimmedBefore(input, v, output) ==
    /\ Len(output) <= Len(input)
    /\ \A i \in 1..Len(output) :
          /\ output[i].date = input[i].date
          /\ output[i].val = input[i].val
    /\ \A j \in (Len(output) + 1)..Len(input) : ~StopsTrim(v, j)

\* C28: the output of _tail_trim is a prefix of its input, dates and values
\* unchanged and in order; trimming never passes a trailing week that is not
\* below the threshold (or whose reference median is zero, negative or
\* undefined): that week and every week before it are retained.
C28_OutputIsPrefix ==
    TrimmedCall => TrimmedBefore(TrimInput \o <<>>, Vals(TrimInput) \o <<>>, call.series)

\* trailing weeks were removed down to a week that is not low, and a low
\* week before that one was retained
C28_LowWeekBeforeRetainedWeek ==
    /\ TrimmedCall
    /\ Len(call.series) < Len(TrimInput)
    /\ StopsTrim(Vals(TrimInput), Len(call.series))
    /\ \E j \in 1..(Len(call.series) - 1) : ~StopsTrim(Vals(TrimInput), j)

\* forecast_df continues series week by week: its first date is 7 days after
\* the last date of series, each further date 7 days after the one before
ContinuesWeekly(series, forecast_df) ==
    /\ forecast_df[1].date = series[Len(series)].date + 7
    /\ \A k \in 1..(Len(forecast_df) - 1) :
          forecast_df[k + 1].date = forecast_df[k].date + 7

\* C29: in every returned forecast the first date is exactly 7 days after
\* the last week of the series that was modeled (the last week left by
\* tail-trim) and consecutive forecast dates are 7 days apart.
C29_ForecastContinuesSeries ==
    /\ SingleSucceeded => ContinuesWeekly(call.series, call.out.forecast_df)
    /\ call.op = "forecast_top_categories" =>
          \A i \in 1..Len(Passes) :
              Passes[i].status = "ok" =>
                  ContinuesWeekly(SeriesOfPass(i), Passes[i].out.forecast_df)

\* tail-trim had removed the last observed week, and the forecast of
\* forecast_sarima starts at that week, 7 days after the last week modeled
C29_ForecastStartsAtTrimmedWeek ==
    /\ call.op = "forecast_sarima"
    /\ Succeeded(call.out)
    /\ \E r \in order_items : WeekOf(r.day) > call.series[Len(call.series)].date
    /\ \A r \in order_items : WeekOf(r.day) <= call.out.forecast_df[1].date
    /\ call.out.forecast_df[1].date = call.series[Len(call.series)].date + 7

\* C30: for every metric, count, sum and ratio alike, every returned point
\* estimate, lower bound and upper bound is >= 0, also where the raw
\* confidence interval extends below zero.
C30_NothingBelowZero ==
    \A forecast_df \in ReturnedFrames :
        \A k \in 1..Len(forecast_df) :
            /\ forecast_df[k].forecast >= 0
            /\ forecast_df[k].lower >= 0
            /\ forecast_df[k].upper >= 0

\* the model of a count series forecast an interval wholly below zero, and
\* forecast_sarima returned 0 in all three columns
C30_CountForecastRaisedToZero ==
    /\ call.op = "forecast_sarima"
    /\ Succeeded(call.out)
    /\ sm.fc = "deep"
    /\ RawForecast(sm, call.series, 1).upper < 0
    /\ call.out.forecast_df[1].forecast = 0
    /\ call.out.forecast_df[1].lower = 0
    /\ call.out.forecast_df[1].upper = 0

====
